---- MODULE Spec2Model ----
(***************************************************************************)
(* PySequenceReverse: the traversal of a call hierarchy that produces the  *)
(* participants and messages of a Mermaid sequence diagram                 *)
(* (src/src/call-analyzer.ts, src/src/code-analyzer.ts,                    *)
(* src/src/entities.ts, src/src/document-manager.ts).                      *)
(*                                                                         *)
(* A string is a sequence of one-character strings.  Positions in strings  *)
(* and documents are 0-based, as in the source; a position is <<line,      *)
(* character>> and a range is [start |-> position, end |-> position].      *)
(***************************************************************************)
EXTENDS Integers, Sequences, FiniteSets, TLC

\* ------------------------------------------------------------------------
\* JavaScript string primitives
\* ------------------------------------------------------------------------

Min(a, b) == IF a <= b THEN a ELSE b

Max(a, b) == IF a >= b THEN a ELSE b

Clamp(i, n) == Max(0, Min(i, n))

\* String.prototype.charAt: the empty string outside the string
charAt(s, i) == IF i >= 0 /\ i < Len(s) THEN s[i + 1] ELSE ""

\* String.prototype.substring(a, b): arguments clamped, swapped when a > b
substring(s, a, b) ==
    LET lo == Min(Clamp(a, Len(s)), Clamp(b, Len(s)))
        hi == Max(Clamp(a, Len(s)), Clamp(b, Len(s)))
    IN  SubSeq(s, lo + 1, hi)

\* String.prototype.substring(a): to the end of the string
substringFrom(s, a) == substring(s, a, Len(s))

\* s.startsWith(p)
startsWith(s, p) == Len(p) <= Len(s) /\ SubSeq(s, 1, Len(p)) = p

\* s.indexOf(p): the first 0-based index at which p occurs in s, -1 if none
indexOf(s, p) ==
    LET hits == {i \in 0..(Len(s) - Len(p)) : SubSeq(s, i + 1, i + Len(p)) = p}
    IN  IF hits = {} THEN -1 ELSE CHOOSE i \in hits : \A j \in hits : i <= j

\* s.includes(p)
includes(s, p) == indexOf(s, p) >= 0

\* s.replace(p, r) with a string pattern: the first occurrence only
replace(s, p, r) ==
    LET i == indexOf(s, p)
    IN  IF i < 0 THEN s
        ELSE SubSeq(s, 1, i) \o r \o SubSeq(s, i + Len(p) + 1, Len(s))

\* s.split('').reverse().join('')
reverse(s) == [i \in 1..Len(s) |-> s[Len(s) + 1 - i]]

\* the characters the regular expression class \s matches
Whitespace == {" ", "\t", "\n", "\r"}

\* the characters the class [a-zA-Z0-9_\.] matches
QualifierChars ==
    {"a", "b", "c", "d", "e", "f", "g", "h", "i", "j", "k", "l", "m",
     "n", "o", "p", "q", "r", "s", "t", "u", "v", "w", "x", "y", "z",
     "A", "B", "C", "D", "E", "F", "G", "H", "I", "J", "K", "L", "M",
     "N", "O", "P", "Q", "R", "S", "T", "U", "V", "W", "X", "Y", "Z",
     "0", "1", "2", "3", "4", "5", "6", "7", "8", "9", "_", "."}

\* the number of leading characters of s that are in the set cs
LeadingRun(s, cs) ==
    LET stops == {i \in 1..Len(s) : s[i] \notin cs}
    IN  IF stops = {} THEN Len(s)
        ELSE (CHOOSE i \in stops : \A j \in stops : i <= j) - 1

\* String.prototype.trim
trim(s) ==
    LET lead  == LeadingRun(s, Whitespace)
        trail == LeadingRun(reverse(s), Whitespace)
    IN  IF lead = Len(s) THEN <<>> ELSE SubSeq(s, lead + 1, Len(s) - trail)

\* ------------------------------------------------------------------------
\* vscode.Position and vscode.Range
\* ------------------------------------------------------------------------

\* Position.isBefore
isBefore(p, q) == p[1] < q[1] \/ (p[1] = q[1] /\ p[2] < q[2])

\* Position.isAfter
isAfter(p, q) == isBefore(q, p)

\* Position.isBeforeOrEqual
isBeforeOrEqual(p, q) == ~isBefore(q, p)

\* new vscode.Range(a, b): start and end are put in order
Range(a, b) ==
    IF isBefore(b, a) THEN [start |-> b, end |-> a] ELSE [start |-> a, end |-> b]

\* Range.contains(other: Range): both ends of other lie in the range, inclusive
contains(r, other) ==
    /\ isBeforeOrEqual(r.start, other.start)
    /\ isBeforeOrEqual(other.end, r.end)


\* ------------------------------------------------------------------------
\* State
\* ------------------------------------------------------------------------

VARIABLES
    body,                   \* the analysed program: function -> the text of its body
    cfg,                    \* vscode.workspace.getConfiguration() and the workspace folders
    pc,                     \* where sequenceCalls stands: "start", "traversing", "done", "threw"
    stack,                  \* the activations of traverse, the innermost last
    participants,           \* CallAnalyzer.participants: the Map's entries in insertion order
    uid,                    \* Participants.uid
    messages,               \* CallAnalyzer.messages
    messageSequenceNumber,  \* CallAnalyzer.messageSequenceNumber
    cancellationRequested,  \* the Cancel button of the progress notification was pressed
    diagrams,               \* SequenceDiagramModel._contents of each run of the command so far
    input,                  \* the arguments of a function applied on its own
    output                  \* the value the function applied on its own has returned

vars == <<body, cfg, pc, stack, participants, uid, messages, messageSequenceNumber,
          cancellationRequested, diagrams, input, output>>

\* ------------------------------------------------------------------------
\* The analysed workspace: files, call hierarchy items, source text
\* ------------------------------------------------------------------------

\* the functions and classes the language server knows (CallHierarchyItem)
Funcs == {"run", "helper", "fetch", "log", "ext", "B"}

Files == {"a", "b", "c", "e"}

\* CallHierarchyItem.name
ItemName(f) ==
    CASE f = "run"    -> <<"r", "u", "n">>
      [] f = "helper" -> <<"h", "e", "l", "p", "e", "r">>
      [] f = "fetch"  -> <<"f", "e", "t", "c", "h">>
      [] f = "log"    -> <<"l", "o", "g">>
      [] f = "ext"    -> <<"e", "x", "t">>
      [] f = "B"      -> <<"B">>

\* CallHierarchyItem.kind (vscode.SymbolKind)
ItemKind(f) ==
    CASE f \in {"run", "helper", "fetch", "log"} -> "Method"
      [] f = "ext" -> "Function"
      [] f = "B"   -> "Class"

\* the file of CallHierarchyItem.uri
ItemFile(f) ==
    CASE f \in {"run", "helper"} -> "a"
      [] f \in {"fetch", "B"}    -> "b"
      [] f = "log"               -> "c"
      [] f = "ext"               -> "e"

\* Uri.path and Uri.fsPath of a file
FilePath(file) ==
    CASE file = "a" -> <<"/", "p", "r", "o", "j", "/", "a", ".", "p", "y">>
      [] file = "b" -> <<"/", "p", "r", "o", "j", "/", "b", ".", "p", "y">>
      [] file = "c" -> <<"/", "p", "r", "o", "j", "/", "l", "i", "b", "/", "c", ".", "p", "y">>
      [] file = "e" -> <<"/", "p", "r", "o", "j", "/", ".", "v", "e", "n", "v", "/", "e", ".", "p", "y">>

\* Uri.toString() of a path
UriToString(path) == <<"f", "i", "l", "e", ":", "/", "/">> \o path

\* the functions a file defines, in the order of their definitions
FileFuncs(file) ==
    CASE file = "a" -> <<"run", "helper">>
      [] file = "b" -> <<"fetch">>
      [] file = "c" -> <<"log">>
      [] file = "e" -> <<"ext">>

\* the lines of a file before its first function definition
FileHeader(file) ==
    CASE file = "a" -> << <<"c", "l", "a", "s", "s", " ", "A", ":">> >>
      [] file = "b" -> << <<"c", "l", "a", "s", "s", " ", "B", ":">> >>
      [] file = "c" -> << <<"c", "l", "a", "s", "s", " ", "C", ":">> >>
      [] file = "e" -> << >>

\* the line that defines a function
DefLine(f) ==
    CASE f = "run"    -> <<" ", "d", "e", "f", " ", "r", "u", "n", "(", "s", "e", "l", "f", ")", ":">>
      [] f = "helper" -> <<" ", "d", "e", "f", " ", "h", "e", "l", "p", "e", "r", "(", "s", "e", "l", "f", ")", ":">>
      [] f = "fetch"  -> <<" ", "d", "e", "f", " ", "f", "e", "t", "c", "h", "(", "s", "e", "l", "f", ",", " ", "n", ")", ":">>
      [] f = "log"    -> <<" ", "d", "e", "f", " ", "l", "o", "g", "(", "s", "e", "l", "f", ",", " ", "m", ")", ":">>
      [] f = "ext"    -> <<"d", "e", "f", " ", "e", "x", "t", "(", "x", ")", ":">>

\* the bodies a function can have, by name
BodyChoices(f) ==
    CASE f = "run"    -> {"R1", "R2", "R3", "R4", "R5", "R6", "R7", "R8"}
      [] f = "helper" -> {"H0", "H1", "H2", "H3", "H4"}
      [] f = "fetch"  -> {"F0", "F1", "F2"}
      [] f = "log"    -> {"L0", "L1"}
      [] f = "ext"    -> {"E0"}
      [] f = "B"      -> {"E0"}

\* the lines of a body
BodyLines(id) ==
    CASE id = "R1" -> <<<<" ", " ", "s", "e", "l", "f", ".", "b", ".", "f", "e", "t", "c", "h", "(", "1", ")">>,
                        <<" ", " ", "s", "e", "l", "f", ".", "h", "e", "l", "p", "e", "r", "(", ")">>>>
      [] id = "R2" -> <<<<" ", " ", "s", "e", "l", "f", ".", "h", "e", "l", "p", "e", "r", "(", "s", "e", "l", "f", ".", "b", ".", "f", "e", "t", "c", "h", "(", "1", ")", ")">>>>
      [] id = "R3" -> <<<<" ", " ", "s", "e", "l", "f", ".", "b", ".", "f", "e", "t", "c", "h", "(", "1", ")">>,
                        <<" ", " ", "s", "e", "l", "f", ".", "h", "e", "l", "p", "e", "r", "(", ")">>,
                        <<" ", " ", "s", "e", "l", "f", ".", "b", ".", "f", "e", "t", "c", "h", "(", "2", ")">>>>
      [] id = "R4" -> <<<<" ", " ", "s", "e", "l", "f", ".", "h", "e", "l", "p", "e", "r", "(", "s", "e", "l", "f", ".", "b", ".", "f", "e", "t", "c", "h", " ", "(", "1", ")", ")">>>>
      [] id = "R5" -> <<<<" ", " ", "x", " ", "=", " ", "B", "(", ")">>,
                        <<" ", " ", "s", "e", "l", "f", ".", "h", "e", "l", "p", "e", "r", "(", ")">>>>
      [] id = "R6" -> <<<<" ", " ", "s", "e", "l", "f", ".", "r", "u", "n", "(", ")">>>>
      [] id = "R7" -> <<<<" ", " ", "s", "e", "l", "f", ".", "h", "e", "l", "p", "e", "r", "(">>,
                        <<" ", " ", " ", "s", "e", "l", "f", ".", "b", ".", "f", "e", "t", "c", "h", "(", "1", ")", ")">>>>
      [] id = "R8" -> <<<<" ", " ", "e", "x", "t", "(", "1", ")">>,
                        <<" ", " ", "s", "e", "l", "f", ".", "b", ".", "f", "e", "t", "c", "h", "(", "1", ")">>>>
      [] id = "R0" -> <<<<" ", " ", "p", "a", "s", "s">>>>
      [] id = "R9" -> <<<<" ", " ", "e", "x", "t", "(", "1", ")">>>>
      [] id = "H0" -> <<<<" ", " ", "p", "a", "s", "s">>>>
      [] id = "H1" -> <<<<" ", " ", "s", "e", "l", "f", ".", "c", ".", "l", "o", "g", "(", "\"", "d", "o", "n", "e", "\"", ")">>>>
      [] id = "H2" -> <<<<" ", " ", "s", "e", "l", "f", ".", "r", "u", "n", "(", ")">>>>
      [] id = "H3" -> <<<<" ", " ", "x", " ", "=", " ", "B", "(", ")">>>>
      [] id = "H4" -> <<<<" ", " ", "s", "e", "l", "f", ".", "c", ".", "l", "o", "g", "(">>>>
      [] id = "F0" -> <<<<" ", " ", "p", "a", "s", "s">>>>
      [] id = "F1" -> <<<<" ", " ", "s", "e", "l", "f", ".", "k", ".", "l", "o", "g", "(", "1", ")">>>>
      [] id = "F2" -> <<<<" ", " ", "s", "e", "l", "f", ".", "f", "e", "t", "c", "h", "(", "0", ")">>>>
      [] id = "L0" -> <<<<" ", " ", "p", "a", "s", "s">>>>
      [] id = "L1" -> <<<<" ", " ", "e", "x", "t", "(", "1", ")">>>>
      [] id = "E0" -> <<<<" ", "p", "a", "s", "s">>>>

\* the programs the model analyses: one body per function
Programs ==
    {[f \in Funcs |->
        CASE f = "run" -> c[1] [] f = "helper" -> c[2] [] f = "fetch" -> c[3]
          [] f = "log" -> c[4] [] f = "ext" -> c[5] [] f = "B" -> c[6]] :
     c \in BodyChoices("run") \X BodyChoices("helper") \X BodyChoices("fetch")
           \X BodyChoices("log") \X BodyChoices("ext") \X BodyChoices("B")}

\* the lines of the definitions of the functions fs, for the bodies b
RECURSIVE DefsLines(_, _)
DefsLines(fs, b) ==
    IF fs = <<>> THEN <<>>
    ELSE <<DefLine(Head(fs))>> \o BodyLines(b[Head(fs)]) \o DefsLines(Tail(fs), b)

\* vscode.workspace.openTextDocument(uri): the lines of the document
Doc(file) == FileHeader(file) \o DefsLines(FileFuncs(file), body)

\* the index in FileFuncs of a function
FuncIndex(f) == CHOOSE i \in 1..Len(FileFuncs(ItemFile(f))) : FileFuncs(ItemFile(f))[i] = f

\* the line of the definition of a function in its document
DefLineNo(f) ==
    Len(FileHeader(ItemFile(f)))
    + Len(DefsLines(SubSeq(FileFuncs(ItemFile(f)), 1, FuncIndex(f) - 1), body))

\* CallHierarchyItem.selectionRange: the range of the item's name where it is defined
ItemSelectionRange(f) ==
    IF f = "B"
    THEN [start |-> <<0, 6>>, end |-> <<0, 7>>]
    ELSE LET col == indexOf(DefLine(f), ItemName(f))
         IN  [start |-> <<DefLineNo(f), col>>,
              end   |-> <<DefLineNo(f), col + Len(ItemName(f))>>]

\* the characters of an identifier
IdentChars == QualifierChars \ {"."}

\* the name g stands as a whole identifier at column c of the line
NameAt(line, c, g) ==
    /\ substring(line, c, c + Len(ItemName(g))) = ItemName(g)
    /\ charAt(line, c - 1) \notin IdentChars
    /\ charAt(line, c + Len(ItemName(g))) \notin IdentChars

\* the positions in the lines first..last of the document at which the name
\* of g occurs
Occurrences(doc, first, last, g) ==
    {p \in UNION {{<<l, c>> : c \in 0..(Len(doc[l + 1]) - 1)} : l \in first..last} :
        NameAt(doc[p[1] + 1], p[2], g)}

\* the positions of a set, in ascending order
RECURSIVE PositionsInOrder(_)
PositionsInOrder(ps) ==
    IF ps = {} THEN <<>>
    ELSE LET p == CHOOSE x \in ps : \A y \in ps : ~isBefore(y, x)
         IN  <<p>> \o PositionsInOrder(ps \ {p})

\* the callees gs, by the first of the places occ each is called at
RECURSIVE CalleesInOrder(_, _)
CalleesInOrder(occ, gs) ==
    IF gs = {} THEN <<>>
    ELSE LET g == CHOOSE x \in gs : \A y \in gs : ~isBefore(occ[y][1], occ[x][1])
         IN  <<g>> \o CalleesInOrder(occ, gs \ {g})

\* one CallHierarchyOutgoingCall per callee, with the ranges of all the places
\* occ the callee is named at
OutgoingCalls(occ, gs) ==
    [i \in 1..Len(gs) |->
        [to |-> gs[i],
         fromRanges |->
            [k \in 1..Len(occ[gs[i]]) |->
                [start |-> occ[gs[i]][k],
                 end |-> <<occ[gs[i]][k][1], occ[gs[i]][k][2] + Len(ItemName(gs[i]))>>]]]]

\* the places of the body of f that name a function: function -> positions
CallSites(f, doc, defLine) ==
    [g \in Funcs |->
        PositionsInOrder(Occurrences(doc, defLine + 1, defLine + Len(BodyLines(body[f])), g))]

\* the outgoing calls for the call sites occ
GroupedCalls(occ) == OutgoingCalls(occ, CalleesInOrder(occ, {g \in Funcs : occ[g] # <<>>}))

\* vscode.provideOutgoingCalls(node): the language server's answer for the node
provideOutgoingCalls(f) == GroupedCalls(CallSites(f, Doc(ItemFile(f)), DefLineNo(f)))


\* ------------------------------------------------------------------------
\* DocumentManager.findLongestCommonPrefix
\* ------------------------------------------------------------------------

\* the characters in the order of their UTF-16 code units
Ascii ==
    <<
      "\t", "\n", "\r", " ", "!", "\"", "#", "$", "%", "&", "'", "(",
      ")", "*", "+", ",", "-", ".", "/", "0", "1", "2", "3", "4",
      "5", "6", "7", "8", "9", ":", ";", "<", "=", ">", "?", "@",
      "A", "B", "C", "D", "E", "F", "G", "H", "I", "J", "K", "L",
      "M", "N", "O", "P", "Q", "R", "S", "T", "U", "V", "W", "X",
      "Y", "Z", "[", "\\", "]", "^", "_", "a", "b", "c", "d",
      "e", "f", "g", "h", "i", "j", "k", "l", "m", "n", "o", "p",
      "q", "r", "s", "t", "u", "v", "w", "x", "y", "z", "{", "|",
      "}", "~"
    >>

CharCode(c) == CHOOSE i \in 1..Len(Ascii) : Ascii[i] = c

\* the length of the longest common prefix of two strings
CommonLength(s, t) ==
    LET diff == {i \in 1..Len(s) : charAt(t, i - 1) # s[i]}
    IN  IF diff = {} THEN Len(s)
        ELSE (CHOOSE i \in diff : \A j \in diff : i <= j) - 1

\* s comes before t, or equals it, in the order of Array.prototype.sort()
\* without a comparator (by code units)
StringLeq(s, t) ==
    LET n == CommonLength(s, t)
    IN  \/ n = Len(s)
        \/ (n < Len(t) /\ CharCode(s[n + 1]) < CharCode(t[n + 1]))

\* findLongestCommonPrefix(paths): the common prefix of the first and the last
\* of the sorted paths
findLongestCommonPrefix(paths) ==
    IF Len(paths) = 0 THEN <<>>
    ELSE LET all == {paths[i] : i \in 1..Len(paths)}
             firstStr == CHOOSE x \in all : \A y \in all : StringLeq(x, y)
             lastStr == CHOOSE x \in all : \A y \in all : StringLeq(y, x)
         IN  SubSeq(firstStr, 1, CommonLength(firstStr, lastStr))

\* CallAnalyzer.roots(): the workspace folders' URIs
roots == [i \in 1..Len(cfg.workspaceFolders) |-> UriToString(cfg.workspaceFolders[i])]

\* CallAnalyzer.workspaceRoot()
workspaceRoot == findLongestCommonPrefix(roots)

\* ------------------------------------------------------------------------
\* CodeAnalyzer
\* ------------------------------------------------------------------------

\* getIndentationLevel(line): the length of the match of /^(\s*)/
getIndentationLevel(line) == LeadingRun(line, Whitespace)

\* the number of leading characters of s that are not in the set cs
LeadingRunUntil(s, cs) == LeadingRun(s, {s[k] : k \in 1..Len(s)} \ cs)

\* /\s+([^\(:]+)/ at the start of rest, of which ws characters are leading
\* whitespace and run characters after them are none of "(" and ":":
\* <<TRUE, capture>>, or <<FALSE>>.  With nothing to capture after the
\* whitespace, \s+ gives its last character to the capture.
ClassNameCapture(rest, ws, run) ==
    IF ws = 0 THEN <<FALSE>>
    ELSE IF run > 0 THEN <<TRUE, SubSeq(rest, ws + 1, ws + run)>>
    ELSE IF ws >= 2 THEN <<TRUE, <<rest[ws]>> >>
    ELSE <<FALSE>>

\* /class\s+([^\(:]+)/ at the 0-based index i of the line
ClassNameAt(line, i) ==
    IF substring(line, i, i + 5) # <<"c", "l", "a", "s", "s">> THEN <<FALSE>>
    ELSE ClassNameCapture(
            substringFrom(line, i + 5),
            LeadingRun(substringFrom(line, i + 5), Whitespace),
            LeadingRunUntil(
                substringFrom(line, i + 5 + LeadingRun(substringFrom(line, i + 5), Whitespace)),
                {"(", ":"}))

\* line.match(/class\s+([^\(:]+)/): the captured group of the leftmost match,
\* <<>> when there is no match
ClassNameMatch(line) ==
    LET hits == {i \in 0..(Len(line) - 1) : ClassNameAt(line, i)[1]}
    IN  IF hits = {} THEN <<>>
        ELSE ClassNameAt(line, CHOOSE i \in hits : \A j \in hits : i <= j)[2]

\* the loop of findClassName, from line i upwards
RECURSIVE findClassNameFrom(_, _, _)
findClassNameFrom(lines, i, currentIndentation) ==
    IF i < 0 THEN <<>>
    ELSE LET line == lines[i + 1]
             lineIndentation == getIndentationLevel(line)
         IN  IF /\ lineIndentation < currentIndentation
                /\ startsWith(trim(line), <<"c", "l", "a", "s", "s", " ">>)
             THEN trim(ClassNameMatch(line))
             ELSE findClassNameFrom(lines, i - 1,
                    IF lineIndentation < currentIndentation /\ Len(trim(line)) > 0
                    THEN lineIndentation ELSE currentIndentation)

\* CodeAnalyzer.findClassName(uri, position): the name of the class around the
\* position, <<>> for undefined
findClassName(file, position) ==
    findClassNameFrom(Doc(file), position[1],
                      getIndentationLevel(Doc(file)[position[1] + 1]))


\* CodeAnalyzer.checkIfCallIsFunctionCall: the value it gives itemInfo.isFunction.
\* The unanchored /[\s\r\n]*\(/ matches exactly the strings that hold a "(".
checkIfCallIsFunctionCall(doc, itemNameRange) ==
    LET lineNumber == itemNameRange.start[1]
        text == doc[lineNumber + 1]
    IN  IF charAt(text, itemNameRange.end[2] + 1) = "("
        THEN TRUE
        ELSE LET restOfLineWithNextLine ==
                     substringFrom(text, itemNameRange.start[2])
                     \o (IF Len(doc) > lineNumber + 1
                         THEN <<" ">> \o doc[lineNumber + 2] ELSE <<>>)
             IN  includes(restOfLineWithNextLine, <<"(">>)

\* s.match(/[a-zA-Z0-9_\.]+/): the leftmost longest run, <<>> when there is none
QualifierMatch(s) ==
    LET hits == {i \in 1..Len(s) : s[i] \in QualifierChars}
    IN  IF hits = {} THEN <<>>
        ELSE LET i == CHOOSE x \in hits : \A y \in hits : x <= y
                 rest == SubSeq(s, i, Len(s))
             IN  SubSeq(rest, 1, LeadingRun(rest, QualifierChars))

\* the object name for the qualifier with its first "self." removed
\* (identifyInvokedObject, the two ifs after the replace)
dropSelf(objectName) ==
    IF objectName = <<"s", "e", "l", "f", ".">> THEN <<"s", "e", "l", "f">>
    ELSE IF objectName # <<"s", "e", "l", "f">>
            /\ startsWith(objectName, <<"s", "e", "l", "f", ".">>)
    THEN substringFrom(objectName, 5)
    ELSE objectName

\* the object name for the match of the reversed line contents
objectNameOf(reversedQualifier) ==
    IF reversedQualifier = <<>> THEN <<>>
    ELSE dropSelf(replace(reverse(reversedQualifier), <<"s", "e", "l", "f", ".">>, <<>>))

\* CodeAnalyzer.identifyInvokedObject: the value it gives itemInfo.objectName
identifyInvokedObject(text, itemNameRange) ==
    IF charAt(text, itemNameRange.start[2] - 1) = "."
    THEN objectNameOf(QualifierMatch(reverse(
            substring(text, LeadingRun(text, Whitespace), itemNameRange.start[2] - 1))))
    ELSE <<>>

\* the loop of collectParameters; st is the state of its local variables.
\* document.lineAt throws for a line that is not in the document.
RECURSIVE collectLoop(_, _)
collectLoop(doc, st) ==
    IF ~(st.parenthesesOpen >= 0) THEN st
    ELSE IF st.currentLine >= Len(doc) THEN [st EXCEPT !.threw = TRUE]
    ELSE IF st.currentColumn >= Len(doc[st.currentLine + 1]) /\ ~(st.currentLine < Len(doc))
    THEN st
    ELSE
      LET moved ==
              IF st.currentColumn < Len(doc[st.currentLine + 1])
              THEN [st EXCEPT !.currentColumn = st.currentColumn + 1]
              ELSE [st EXCEPT !.currentLine = st.currentLine + 1, !.currentColumn = 0]
      IN  IF moved.currentLine >= Len(doc) THEN [moved EXCEPT !.threw = TRUE]
          ELSE
            LET currentCharacter == charAt(doc[moved.currentLine + 1], moved.currentColumn)
                here == <<moved.currentLine, moved.currentColumn>>
                counted ==
                    IF currentCharacter = "("
                    THEN [moved EXCEPT
                            !.paramsStart = IF moved.parenthesesOpen = 0 THEN here ELSE @,
                            !.parenthesesOpen = @ + 1]
                    ELSE IF currentCharacter = ")"
                    THEN [moved EXCEPT !.parenthesesOpen = @ - 1]
                    ELSE moved
                added == [counted EXCEPT
                            !.params = @ \o (IF currentCharacter = "" THEN <<>>
                                             ELSE <<currentCharacter>>)]
            IN  IF added.parenthesesOpen = 0
                THEN [added EXCEPT !.paramsEnd = here]
                ELSE collectLoop(doc, added)

\* the end of collectParameters, after the loop has left its variables as st
collected(st) ==
    [threw |-> st.threw,
     parameters |-> IF cfg.omitParams THEN <<>> ELSE st.params,
     parametersRange |-> Range(st.paramsStart, <<st.paramsEnd[1], st.paramsEnd[2] + 1>>)]

\* CodeAnalyzer.collectParameters: [threw, parameters, parametersRange]
collectParameters(doc, itemNameRange) ==
    collected(collectLoop(doc,
        [parenthesesOpen |-> 0, params |-> <<>>,
         currentLine |-> itemNameRange.end[1],
         currentColumn |-> itemNameRange.end[2] - 1,
         paramsStart |-> <<0, 0>>, paramsEnd |-> <<0, 0>>, threw |-> FALSE]))

\* new CallItemInfo(): not a function, no object, no parameters, range (0,0)-(0,0)
CallItemInfo ==
    [threw |-> FALSE, isFunction |-> FALSE, objectName |-> <<>>, parameters |-> <<>>,
     parametersRange |-> [start |-> <<0, 0>>, end |-> <<0, 0>>]]

\* the CallItemInfo of a function call, with the object and the parameters found
FunctionCallInfo(objectName, params) ==
    [threw |-> params.threw, isFunction |-> TRUE, objectName |-> objectName,
     parameters |-> params.parameters, parametersRange |-> params.parametersRange]

\* getCallItemInfo on the opened document
getCallItemInfoIn(doc, itemNameRange, callee) ==
    IF checkIfCallIsFunctionCall(doc, itemNameRange)
    THEN FunctionCallInfo(
            identifyInvokedObject(doc[itemNameRange.start[1] + 1], itemNameRange),
            collectParameters(doc,
                IF cfg.preferSignatureOverParams
                THEN ItemSelectionRange(callee) ELSE itemNameRange))
    ELSE CallItemInfo

\* CodeAnalyzer.getCallItemInfo(uri, itemNameRange, callee): the CallItemInfo,
\* with threw set when the call ends in an exception
getCallItemInfo(file, itemNameRange, callee) ==
    getCallItemInfoIn(Doc(file), itemNameRange, callee)


\* ------------------------------------------------------------------------
\* CallAnalyzer.shallCallBeSkipped
\* ------------------------------------------------------------------------

\* s.split(separator) for a set of one-character separators
RECURSIVE split(_, _)
split(s, seps) ==
    LET cuts == {i \in 1..Len(s) : s[i] \in seps}
    IN  IF cuts = {} THEN <<s>>
        ELSE LET i == CHOOSE x \in cuts : \A y \in cuts : x <= y
             IN  <<SubSeq(s, 1, i - 1)>> \o split(SubSeq(s, i + 1, Len(s)), seps)

\* a pattern segment without "/" matches a path segment: "*" stands for any run
\* of characters, "?" for one; a leading dot is only matched by a dot
RECURSIVE SegmentMatch(_, _, _)
SegmentMatch(seg, pat, atStart) ==
    IF pat = <<>> THEN seg = <<>>
    ELSE IF Head(pat) = "*"
    THEN /\ ~(atStart /\ seg # <<>> /\ Head(seg) = ".")
         /\ \E n \in 0..Len(seg) : SegmentMatch(SubSeq(seg, n + 1, Len(seg)), Tail(pat), FALSE)
    ELSE IF seg = <<>> THEN FALSE
    ELSE IF Head(pat) = "?"
    THEN ~(atStart /\ Head(seg) = ".") /\ SegmentMatch(Tail(seg), Tail(pat), FALSE)
    ELSE Head(pat) = Head(seg) /\ SegmentMatch(Tail(seg), Tail(pat), FALSE)

\* the segments of a pattern match the segments of a path: "**" stands for
\* any number of segments that do not start with a dot
RECURSIVE SegmentsMatch(_, _)
SegmentsMatch(segs, pats) ==
    IF pats = <<>> THEN segs = <<>>
    ELSE IF Head(pats) = <<"*", "*">>
    THEN \E n \in 0..Len(segs) :
            /\ \A k \in 1..n : segs[k] = <<>> \/ Head(segs[k]) # "."
            /\ SegmentsMatch(SubSeq(segs, n + 1, Len(segs)), Tail(pats))
    ELSE /\ segs # <<>>
         /\ SegmentMatch(Head(segs), Head(pats), TRUE)
         /\ SegmentsMatch(Tail(segs), Tail(pats))

\* minimatch(path, glob)
minimatch(path, glob) == SegmentsMatch(split(path, {"/"}), split(glob, {"/"}))

\* the paths that hold third-party packages
builtinPackagesPaths ==
    << <<".", "v", "e", "n", "v">>, <<".", "c", "o", "n", "d", "a">> >>
    \o (IF cfg.pythonPath # <<>> THEN <<cfg.pythonPath>> ELSE <<>>)
    \o cfg.venvFolders
    \o (IF cfg.venvPath # <<>> THEN split(cfg.venvPath, {";", ","}) ELSE <<>>)

\* shallCallBeSkipped with the workspace rule tried before the ignore globs:
\* a fault the order of the rules must tell from shallCallBeSkipped
shallCallBeSkippedWorkspaceFirst(calledItem) ==
    LET fsPath == FilePath(ItemFile(calledItem))
    IN  IF ItemKind(calledItem) \notin {"Method", "Function", "Property"}
        THEN [skip |-> TRUE, reason |-> "is not a function call"]
        ELSE IF /\ cfg.ignoreNonWorkspaceFiles
                /\ ~\E i \in 1..Len(cfg.workspaceFolders) :
                        startsWith(fsPath, cfg.workspaceFolders[i])
        THEN [skip |-> TRUE, reason |-> "goes out of workspace"]
        ELSE IF \E i \in 1..Len(cfg.ignoreGlobs) : minimatch(fsPath, cfg.ignoreGlobs[i])
        THEN [skip |-> TRUE, reason |-> "involves ignored globals"]
        ELSE IF /\ cfg.ignoreAnalyzingThirdPartyPackages
                /\ \E i \in 1..Len(builtinPackagesPaths) :
                        includes(fsPath, builtinPackagesPaths[i])
        THEN [skip |-> TRUE, reason |-> "goes to (v)env module"]
        ELSE [skip |-> FALSE, reason |-> ""]

\* CallAnalyzer.shallCallBeSkipped(call, calledItem): the SkipCheckResult
shallCallBeSkipped(calledItem) ==
    LET fsPath == FilePath(ItemFile(calledItem))
    IN  IF ItemKind(calledItem) \notin {"Method", "Function", "Property"}
        THEN [skip |-> TRUE, reason |-> "is not a function call"]
        ELSE IF \E i \in 1..Len(cfg.ignoreGlobs) : minimatch(fsPath, cfg.ignoreGlobs[i])
        THEN [skip |-> TRUE, reason |-> "involves ignored globals"]
        ELSE IF /\ cfg.ignoreNonWorkspaceFiles
                /\ ~\E i \in 1..Len(cfg.workspaceFolders) :
                        startsWith(fsPath, cfg.workspaceFolders[i])
        THEN [skip |-> TRUE, reason |-> "goes out of workspace"]
        ELSE IF /\ cfg.ignoreAnalyzingThirdPartyPackages
                /\ \E i \in 1..Len(builtinPackagesPaths) :
                        includes(fsPath, builtinPackagesPaths[i])
        THEN [skip |-> TRUE, reason |-> "goes to (v)env module"]
        ELSE [skip |-> FALSE, reason |-> ""]

\* ------------------------------------------------------------------------
\* Participant and Participants (entities.ts)
\* ------------------------------------------------------------------------

\* Participant.qualifiedName
qualifiedName(p) == p.namespace \o <<"/">> \o p.class

\* Participant.alias
alias(p) == qualifiedName(p) \o <<"<", "b", "r", ">", ":">> \o p.object

\* uniqueName without the object: a fault the registry's one participant per
\* namespace, class and object must tell from uniqueName
uniqueNameOfClass(p) == qualifiedName(p) \o <<":">> \o qualifiedName(p)

\* Participant.uniqueName
uniqueName(p) == qualifiedName(p) \o <<":">> \o alias(p)

\* Map.has(key) on the entries of a Participants map
has(entries, key) == \E i \in 1..Len(entries) : entries[i].key = key

\* Map.get(key)
get(entries, key) == entries[CHOOSE i \in 1..Len(entries) : entries[i].key = key].value

\* the decimal digits of a natural number
RECURSIVE toString(_)
toString(n) ==
    LET digits == <<"0", "1", "2", "3", "4", "5", "6", "7", "8", "9">>
    IN  IF n < 10 THEN <<digits[n + 1]>>
        ELSE toString(n \div 10) \o <<digits[(n % 10) + 1]>>

\* set with the id taken before the counter is incremented: a fault the ids
\* p1, p2, ... must tell from set
setBeforeIncrement(map, value) ==
    IF ~has(map.entries, uniqueName(value))
    THEN [entries |-> Append(map.entries,
                        [key |-> uniqueName(value),
                         value |-> [value EXCEPT !.id = <<"p">> \o toString(map.uid)]]),
          uid |-> map.uid + 1]
    ELSE map

\* Participants.set(key, value) on a map [entries, uid]: a value whose unique
\* name is no key yet gets the next id and is appended
set(map, value) ==
    IF ~has(map.entries, uniqueName(value))
    THEN [entries |-> Append(map.entries,
                        [key |-> uniqueName(value),
                         value |-> [value EXCEPT !.id = <<"p">> \o toString(map.uid + 1)]]),
          uid |-> map.uid + 1]
    ELSE map

\* add that hands out the next id without putting the participant into the
\* map: a fault the ids of the messages must tell from add
addWithoutSet(map, participant) ==
    [map |-> map,
     result |-> [participant EXCEPT !.id = <<"p">> \o toString(map.uid + 1)]]

\* Participants.add(participant): [map, result], the map after the call and
\* the participant it returns
add(map, participant) ==
    LET after == set(map, participant)
    IN  [map |-> after, result |-> get(after.entries, uniqueName(participant))]


\* ------------------------------------------------------------------------
\* TextFormatter.wrapText
\* ------------------------------------------------------------------------

\* text.replace(/\\/, " "): the first backslash becomes a space
ReplaceBackslash(text) == replace(text, <<"\\">>, <<" ">>)

\* text.replace(/\s\s+/, " "): the leftmost run of two or more whitespace
\* characters becomes one space
ReplaceDoubleSpaces(text) ==
    LET hits == {i \in 1..(Len(text) - 1) : text[i] \in Whitespace /\ text[i + 1] \in Whitespace}
    IN  IF hits = {} THEN text
        ELSE LET i == CHOOSE x \in hits : \A y \in hits : x <= y
                 rest == SubSeq(text, i, Len(text))
                 n == LeadingRun(rest, Whitespace)
             IN  SubSeq(text, 1, i - 1) \o <<" ">> \o SubSeq(rest, n + 1, Len(rest))


\* TextFormatter.defaultLineLength
defaultLineLength == 30

\* TextFormatter.softWrappingLimit
softWrappingLimit == 10

\* the characters of the class [\s\[\.,\:\(\)\{]
BreakChars == Whitespace \cup {"[", ".", ",", ":", "(", ")", "{"}

\* canBreakLineAtPosition(position): the line can be broken at the position
canBreakLineAtPosition(text, position) ==
    /\ ~(position < 0 \/ position >= Len(text))
    /\ (position >= Len(text) - 1 \/ charAt(text, position) \in BreakChars)

\* findNearbySpaceForward(limit): the position the search moves chunkEndsAt to,
\* -1 when it finds none
findNearbySpaceForward(text, lengthAbout, chunkStartsAt, limit) ==
    LET hits == {ix \in 1..(limit - 1) :
                    canBreakLineAtPosition(text, chunkStartsAt + 1 + lengthAbout + ix)}
    IN  IF hits = {} THEN -1
        ELSE chunkStartsAt + 1 + lengthAbout + (CHOOSE x \in hits : \A y \in hits : x <= y)

\* findNearbySpaceBackward(): the position the search moves chunkEndsAt to,
\* -1 when it finds none
findNearbySpaceBackward(text, lengthAbout, chunkStartsAt, chunkEndsAt) ==
    LET hits == {ix \in 1..(Min(softWrappingLimit, chunkEndsAt - chunkStartsAt) - 1) :
                    canBreakLineAtPosition(text, chunkStartsAt + 1 + lengthAbout - ix)}
    IN  IF hits = {} THEN -1
        ELSE chunkStartsAt + 1 + lengthAbout - (CHOOSE x \in hits : \A y \in hits : x <= y)

\* the value of chunkEndsAt after the search for a breaking point near it
BreakingPoint(text, lengthAbout, chunkStartsAt, chunkEndsAt) ==
    LET forward == findNearbySpaceForward(text, lengthAbout, chunkStartsAt, softWrappingLimit)
        backward == findNearbySpaceBackward(text, lengthAbout, chunkStartsAt, chunkEndsAt)
        nearby ==
            IF 2 * (Len(text) - chunkEndsAt) < 3 * softWrappingLimit
            THEN (IF backward >= 0 THEN backward ELSE forward)
            ELSE (IF forward >= 0 THEN forward ELSE backward)
        forced == findNearbySpaceForward(text, lengthAbout, chunkStartsAt, Len(text))
    IN  IF nearby >= 0 THEN nearby
        ELSE IF 2 * (chunkStartsAt + lengthAbout) + 3 * softWrappingLimit > 2 * Len(text)
                /\ forced >= 0
        THEN forced
        ELSE chunkEndsAt

\* the value of chunkEndsAt after the first part of the loop body of wrapText:
\* the intended end of the chunk, moved to a breaking point when it is none
chunkEnd(text, lengthAbout, chunkStartsAt, intended) ==
    IF charAt(text, intended) \notin (Whitespace \cup {","})
    THEN BreakingPoint(text, lengthAbout, chunkStartsAt, intended)
    ELSE intended

RECURSIVE wrapChunks(_, _, _, _)
\* the second part of the loop body of wrapText: the chunk goes to wrappedText
addChunk(text, lengthAbout, chunkStartsAt, chunkEndsAt, wrappedText) ==
    IF chunkEndsAt + lengthAbout >= Len(text)
    THEN wrappedText \o trim(substring(text, chunkStartsAt, chunkEndsAt + 1))
         \o (IF ~(chunkEndsAt >= Len(text)) THEN <<"<", "b", "r", ">">> ELSE <<>>)
         \o substringFrom(text, chunkEndsAt + 1)
    ELSE wrapChunks(text, lengthAbout, chunkEndsAt,
            wrappedText \o trim(substring(text, chunkStartsAt, chunkEndsAt + 1))
            \o (IF ~(chunkEndsAt >= Len(text)) THEN <<"<", "b", "r", ">">> ELSE <<>>))

\* the loop of wrapText that cuts the text into chunks
wrapChunks(text, lengthAbout, chunkStartsAt, wrappedText) ==
    addChunk(text, lengthAbout, chunkStartsAt,
             chunkEnd(text, lengthAbout, chunkStartsAt,
                      chunkStartsAt + Min(lengthAbout + 1, Len(text) - chunkStartsAt)),
             wrappedText)

\* the start of the run of whitespace that ends right before 0-based index i
WhitespaceStart(text, i) == i - LeadingRun(reverse(SubSeq(text, 1, i)), Whitespace)

\* the end of the run of whitespace that starts at 0-based index i
WhitespaceEnd(text, i) == i + LeadingRun(SubSeq(text, i + 1, Len(text)), Whitespace)

\* wrappedText.replace(/\s*<br>\s*<br>\s*/, "<br>")
ReplaceEmptyLine(text) ==
    LET br == <<"<", "b", "r", ">">>
        hits == {i \in 0..(Len(text) - 4) :
                    /\ SubSeq(text, i + 1, i + 4) = br
                    /\ LET j == WhitespaceEnd(text, i + 4)
                       IN  substring(text, j, j + 4) = br}
    IN  IF hits = {} THEN text
        ELSE LET i == CHOOSE x \in hits : \A y \in hits : x <= y
                 j == WhitespaceEnd(text, i + 4)
             IN  SubSeq(text, 1, WhitespaceStart(text, i)) \o br
                 \o SubSeq(text, WhitespaceEnd(text, j + 4) + 1, Len(text))

\* wrappedText.replace(/\s*<br>\s*/, "<br>")
ReplaceSpacesAroundBreak(text) ==
    LET br == <<"<", "b", "r", ">">>
        i == indexOf(text, br)
    IN  IF i < 0 THEN text
        ELSE SubSeq(text, 1, WhitespaceStart(text, i)) \o br
             \o SubSeq(text, WhitespaceEnd(text, i + 4) + 1, Len(text))

\* wrapCleaned with the soft wrapping limit left out of the test for a text
\* that fits one line: a fault the texts returned as they are must tell from
\* wrapCleaned
wrapCleanedWithoutSoftLimit(cleaned, lengthAbout) ==
    IF Len(cleaned) < lengthAbout
    THEN cleaned
    ELSE ReplaceDoubleSpaces(ReplaceSpacesAroundBreak(ReplaceEmptyLine(
            ReplaceBackslash(wrapChunks(cleaned, lengthAbout, 0, <<>>)))))

\* wrapText after the two replacements it starts with
wrapCleaned(cleaned, lengthAbout) ==
    IF Len(cleaned) < lengthAbout + softWrappingLimit
    THEN cleaned
    ELSE ReplaceDoubleSpaces(ReplaceSpacesAroundBreak(ReplaceEmptyLine(
            ReplaceBackslash(wrapChunks(cleaned, lengthAbout, 0, <<>>)))))

\* TextFormatter.wrapText(text, lengthAbout)
wrapText(text, lengthAbout) ==
    wrapCleaned(ReplaceDoubleSpaces(ReplaceBackslash(text)), lengthAbout)


\* ------------------------------------------------------------------------
\* flattenCalls and sortCalls (CallAnalyzer.traverse)
\* ------------------------------------------------------------------------

\* compareCalls with the comparison of the positions turned round: a fault
\* the order of the flattened calls must tell from compareCalls
compareCallsDescending(a, b) ==
    IF a.info.isFunction /\ contains(a.info.parametersRange, b.call.fromRange)
    THEN 1
    ELSE IF b.info.isFunction /\ contains(b.info.parametersRange, a.call.fromRange)
    THEN -1
    ELSE IF isBefore(a.call.fromRange.start, b.call.fromRange.start)
    THEN 1
    ELSE IF isAfter(a.call.fromRange.start, b.call.fromRange.start)
    THEN -1
    ELSE 0

\* the comparator of sortCalls; a and b are [call, info] with
\* call = [to, fromRange] (a CallHierarchyOutgoingCall with the one range)
compareCalls(a, b) ==
    IF a.info.isFunction /\ contains(a.info.parametersRange, b.call.fromRange)
    THEN 1
    ELSE IF b.info.isFunction /\ contains(b.info.parametersRange, a.call.fromRange)
    THEN -1
    ELSE IF isBefore(a.call.fromRange.start, b.call.fromRange.start)
    THEN -1
    ELSE IF isAfter(a.call.fromRange.start, b.call.fromRange.start)
    THEN 1
    ELSE 0

\* Array.prototype.sort of the extension host (V8) on fewer than 64 elements:
\* the length of the run the array starts with (CountAndMakeRun)
RECURSIVE RunLength(_, _, _)
RunLength(work, idx, isDescending) ==
    IF idx > Len(work) THEN idx - 1
    ELSE LET order == compareCalls(work[idx], work[idx - 1])
         IN  IF (isDescending /\ order >= 0) \/ (~isDescending /\ order < 0)
             THEN idx - 1
             ELSE RunLength(work, idx + 1, isDescending)

\* the binary search of BinaryInsertionSort: where the pivot goes in
\* work[left + 1 .. right] (left and right are 0-based)
RECURSIVE InsertionPoint(_, _, _, _)
InsertionPoint(work, pivot, left, right) ==
    IF ~(left < right) THEN left
    ELSE LET mid == left + ((right - left) \div 2)
         IN  IF compareCalls(pivot, work[mid + 1]) < 0
             THEN InsertionPoint(work, pivot, left, mid)
             ELSE InsertionPoint(work, pivot, mid + 1, right)

\* BinaryInsertionSort from the 0-based index start on
RECURSIVE BinaryInsertionSort(_, _)
BinaryInsertionSort(work, start) ==
    IF ~(start < Len(work)) THEN work
    ELSE LET pivot == work[start + 1]
             left == InsertionPoint(work, pivot, 0, start)
         IN  BinaryInsertionSort(
                [i \in 1..Len(work) |->
                    IF i - 1 < left THEN work[i]
                    ELSE IF i - 1 = left THEN pivot
                    ELSE IF i - 1 <= start THEN work[i - 1]
                    ELSE work[i]],
                start + 1)

\* callsWithInfo.sort(compareCalls)
sort(work) ==
    IF Len(work) < 2 THEN work
    ELSE LET isDescending == compareCalls(work[2], work[1]) < 0
             runLength == RunLength(work, 3, isDescending)
             run == IF isDescending
                    THEN [i \in 1..Len(work) |->
                            IF i <= runLength THEN work[runLength + 1 - i] ELSE work[i]]
                    ELSE work
         IN  BinaryInsertionSort(run, runLength)

\* the forEach loops of flattenCalls: one call per range of every grouped call
\* that is not skipped
RECURSIVE flatten(_)
flatten(groupedCalls) ==
    IF groupedCalls = <<>> THEN <<>>
    ELSE LET gc == Head(groupedCalls)
         IN  (IF ~shallCallBeSkipped(gc.to).skip
              THEN [k \in 1..Len(gc.fromRanges) |-> [to |-> gc.to, fromRange |-> gc.fromRanges[k]]]
              ELSE <<>>)
             \o flatten(Tail(groupedCalls))

\* the end of sortCalls: the sorted calls without their CallItemInfo; threw
\* when a getCallItemInfo ended in an exception
sorted(callsWithInfo) ==
    IF \E i \in 1..Len(callsWithInfo) : callsWithInfo[i].info.threw
    THEN [threw |-> TRUE, calls |-> <<>>]
    ELSE LET sortedCalls == sort(callsWithInfo)
         IN  [threw |-> FALSE,
              calls |-> [i \in 1..Len(callsWithInfo) |-> sortedCalls[i].call]]

\* sortCalls: the calls get their CallItemInfo and are sorted by the comparator
sortCalls(node, calls) ==
    sorted([i \in 1..Len(calls) |->
              [call |-> calls[i],
               info |-> getCallItemInfo(ItemFile(node), calls[i].fromRange, calls[i].to)]])

\* flattenCalls(): [threw, calls]
flattenCalls(node) == sortCalls(node, flatten(provideOutgoingCalls(node)))

\* ------------------------------------------------------------------------
\* identifyParticipant and the messages (CallAnalyzer.traverse)
\* ------------------------------------------------------------------------

\* uri.path.split('/').pop()?.split('?')[0]
moduleName(path) ==
    LET segments == split(path, {"/"})
    IN  split(segments[Len(segments)], {"?"})[1]

\* new Participant({class, namespace}) for the class name found
newParticipant(file, className) ==
    [class |-> IF Len(className) = 0 /\ moduleName(FilePath(file)) # <<>>
               THEN moduleName(FilePath(file)) ELSE className,
     namespace |-> replace(UriToString(FilePath(file)), workspaceRoot, <<>>),
     object |-> <<>>,
     id |-> <<>>]

\* identifyParticipant(uri, position): a Participant without object and id
identifyParticipant(file, position) == newParticipant(file, findClassName(file, position))

\* the label of return messages
returnLabel == IF cfg.returnLabel = <<>> THEN <<" ">> ELSE cfg.returnLabel

\* includeSequenceNumbers
includeSequenceNumbers == ~cfg.omitSequenceNumbers

\* the message of the outgoing call.  text is the string the code pushes; kind,
\* from, to, seq, callee and range record what the string was built from.
CallMessage(caller, callee, seq, call, info) ==
    [kind |-> "call", from |-> caller.id, to |-> callee.id, seq |-> seq,
     callee |-> call.to, range |-> call.fromRange,
     text |-> <<"\t">> \o caller.id \o <<" ", "-", ">", ">", "+", " ">> \o callee.id
              \o <<":", " ">> \o (IF includeSequenceNumbers THEN seq \o <<":">> ELSE <<>>)
              \o <<" ">> \o ItemName(call.to) \o wrapText(info.parameters, defaultLineLength)]

\* the message of the return call
ReturnMessage(caller, callee, seq, call) ==
    [kind |-> "return", from |-> callee.id, to |-> caller.id, seq |-> seq,
     callee |-> call.to, range |-> call.fromRange,
     text |-> <<"\t">> \o callee.id \o <<" ", "-", "-", ">", ">", "-", " ">> \o caller.id
              \o <<":", " ">> \o (IF includeSequenceNumbers THEN seq ELSE <<>>)
              \o <<":", " ">> \o returnLabel]

\* the note that stands for the calls beyond the depth limit
NoteMessage(calleeId, seq, call) ==
    [kind |-> "note", from |-> calleeId, to |-> calleeId, seq |-> seq,
     callee |-> call.to, range |-> call.fromRange,
     text |-> <<"\t", "N", "o", "t", "e", " ", "r", "i", "g", "h", "t", " ", "o", "f", " ">>
              \o calleeId
              \o <<":", " ", "F", "u", "r", "t", "h", "e", "r", " ", "c", "a", "l", "l", "s", " ",
                   "i", "g", "n", "o", "r", "e", "d", " ", "f", "o", "r", " ",
                   "r", "e", "a", "c", "h", "i", "n", "g", " ", "m", "a", "x", " ",
                   "d", "e", "p", "t", "h">>]


\* ------------------------------------------------------------------------
\* CallAnalyzer.optimizeReferences
\* ------------------------------------------------------------------------

\* the loop that removes commonRoot until nothing changes
RECURSIVE removeAll(_, _)
removeAll(prettyName, commonRoot) ==
    LET evenPrettierName == replace(prettyName, commonRoot, <<>>)
    IN  IF evenPrettierName = prettyName THEN prettyName
        ELSE removeAll(evenPrettierName, commonRoot)

\* the entry "" the pretty messages start with
EmptyMessage ==
    [kind |-> "empty", from |-> <<>>, to |-> <<>>, seq |-> <<>>,
     callee |-> "", range |-> [start |-> <<0, 0>>, end |-> <<0, 0>>], text |-> <<>>]

\* the two loops of optimizeReferences for the common root found
removeCommonRoot(ps, ms, commonRoot) ==
    [participants |->
        [i \in 1..Len(ps) |->
            [ps[i] EXCEPT !.value.namespace =
                removeAll(replace(@, commonRoot, <<>>), commonRoot)]],
     messages |->
        <<EmptyMessage>> \o
        [i \in 1..Len(ms) |->
            [ms[i] EXCEPT !.text =
                removeAll(replace(@, commonRoot, <<>>), commonRoot)]]]

\* optimizeReferences() on the participants ps and the messages ms:
\* [participants, messages] after it
optimizeReferences(ps, ms) ==
    IF Len(ms) = 0 THEN [participants |-> ps, messages |-> ms]
    ELSE removeCommonRoot(ps, ms,
            findLongestCommonPrefix([i \in 1..Len(ps) |-> ps[i].value.namespace]))

\* ------------------------------------------------------------------------
\* Configuration
\* ------------------------------------------------------------------------

\* the largest value of Max Call Depth the model runs with
MaxDepthBound == 3

\* the settings of package.json with their defaults, in the workspace /proj
DefaultOptions ==
    [ignoreGlobs |-> <<>>,
     ignoreNonWorkspaceFiles |-> TRUE,
     ignoreAnalyzingThirdPartyPackages |-> TRUE,
     pythonPath |-> <<>>,
     venvFolders |-> <<>>,
     venvPath |-> <<>>,
     workspaceFolders |-> << <<"/", "p", "r", "o", "j">> >>,
     preferSignatureOverParams |-> FALSE,
     omitParams |-> FALSE,
     omitSequenceNumbers |-> FALSE,
     returnLabel |-> <<"r", "e", "t", "u", "r", "n", " ", "v", "a", "l", "u", "e">>]

\* the settings the model runs with
Options ==
    {DefaultOptions,
     [DefaultOptions EXCEPT !.ignoreNonWorkspaceFiles = FALSE,
                            !.ignoreAnalyzingThirdPartyPackages = FALSE],
     [DefaultOptions EXCEPT !.preferSignatureOverParams = TRUE]}

\* the configurations: the options with a Max Call Depth
Configs ==
    {[ignoreGlobs |-> o.ignoreGlobs,
      ignoreNonWorkspaceFiles |-> o.ignoreNonWorkspaceFiles,
      ignoreAnalyzingThirdPartyPackages |-> o.ignoreAnalyzingThirdPartyPackages,
      pythonPath |-> o.pythonPath,
      venvFolders |-> o.venvFolders,
      venvPath |-> o.venvPath,
      workspaceFolders |-> o.workspaceFolders,
      preferSignatureOverParams |-> o.preferSignatureOverParams,
      omitParams |-> o.omitParams,
      omitSequenceNumbers |-> o.omitSequenceNumbers,
      returnLabel |-> o.returnLabel,
      maxCallDepth |-> d] : o \in Options, d \in 1..MaxDepthBound}

\* ------------------------------------------------------------------------
\* sequenceCalls and traverse as a state machine
\* ------------------------------------------------------------------------

\* the function the diagram is made for (sequenceDiagramModel.functionAnalyzed())
Root == "run"

\* the activation of traverse(node, myName, parentSequenceNumber, depth), before
\* its first statement
Activation(node, myName, parentSequenceNumber, depth) ==
    [node |-> node, myName |-> myName, parentSequenceNumber |-> parentSequenceNumber,
     depth |-> depth,
     at |-> "enter",                \* "enter", "loop", "awaiting" (the nested traverse)
                                    \* or "undefined" (the value returned)
     calls |-> <<>>,                \* calls
     callIx |-> 0,                  \* callIx
     localSequenceNumberIx |-> 0,   \* localSequenceNumberIx
     myMessages |-> <<>>,           \* myMessages
     beforeNestedCalls |-> <<>>,    \* beforeNestedCalls of the analyzeCall under way
     afterNestedCalls |-> <<>>,     \* afterNestedCalls of the analyzeCall under way
     calleeId |-> <<>>,             \* callee.id of the analyzeCall under way
     sequenceNumber |-> <<>>]       \* the sequence number of the analyzeCall under way

Top == stack[Len(stack)]

\* no function is applied on its own
NoInput == [function |-> "none"]

\* the function applied on its own has neither returned nor thrown
NoOutput == [returned |-> FALSE, threw |-> FALSE]

Init ==
    /\ body \in Programs
    /\ cfg \in Configs
    /\ pc = "start"
    /\ stack = <<>>
    /\ participants = <<>>
    /\ uid = 0
    /\ messages = <<>>
    /\ messageSequenceNumber = <<>>
    /\ cancellationRequested = FALSE
    /\ diagrams = <<>>
    /\ input = NoInput
    /\ output = NoOutput

\* sequenceCalls up to the call of traverse for the root
SequenceCallsStarts ==
    /\ pc = "start"
    /\ pc' = "traversing"
    /\ stack' = <<Activation(Root, ItemName(Root) \o <<"(", ")">>, <<>>, 0)>>
    /\ UNCHANGED <<cancellationRequested, diagrams, input, output, body, cfg, participants, uid, messages, messageSequenceNumber>>

\* Compose with the return put before the messages of the nested calls: a
\* fault the nesting of calls and returns must tell from Compose
ComposeReturnFirst(frame, nested) ==
    [frame EXCEPT
        !.myMessages =
            @ \o frame.beforeNestedCalls \o frame.afterNestedCalls
              \o (IF nested.undefined
                  THEN <<NoteMessage(frame.calleeId, frame.sequenceNumber,
                                     frame.calls[frame.callIx])>>
                  ELSE <<>>)
              \o nested.list,
        !.beforeNestedCalls = <<>>,
        !.afterNestedCalls = <<>>,
        !.calleeId = <<>>,
        !.sequenceNumber = <<>>,
        !.at = "loop"]

\* Compose with the messages of the nested calls put before the call: a
\* fault the order of the call messages must tell from Compose
ComposeNestedFirst(frame, nested) ==
    [frame EXCEPT
        !.myMessages =
            @ \o nested.list \o frame.beforeNestedCalls
              \o (IF nested.undefined
                  THEN <<NoteMessage(frame.calleeId, frame.sequenceNumber,
                                     frame.calls[frame.callIx])>>
                  ELSE <<>>)
              \o frame.afterNestedCalls,
        !.beforeNestedCalls = <<>>,
        !.afterNestedCalls = <<>>,
        !.calleeId = <<>>,
        !.sequenceNumber = <<>>,
        !.at = "loop"]

\* Compose that leaves out the note: a fault the notes at the depth limit
\* must tell from Compose
ComposeWithoutNote(frame, nested) ==
    [frame EXCEPT
        !.myMessages = @ \o frame.beforeNestedCalls \o nested.list \o frame.afterNestedCalls,
        !.beforeNestedCalls = <<>>,
        !.afterNestedCalls = <<>>,
        !.calleeId = <<>>,
        !.sequenceNumber = <<>>,
        !.at = "loop"]

\* the end of analyzeCall in the activation frame: the messages of the call,
\* with those of the nested calls (or the note when nested is undefined)
\* between the call and its return, go to myMessages
Compose(frame, nested) ==
    [frame EXCEPT
        !.myMessages =
            @ \o frame.beforeNestedCalls
              \o (IF nested.undefined
                  THEN <<NoteMessage(frame.calleeId, frame.sequenceNumber,
                                     frame.calls[frame.callIx])>>
                  ELSE <<>>)
              \o nested.list \o frame.afterNestedCalls,
        !.beforeNestedCalls = <<>>,
        !.afterNestedCalls = <<>>,
        !.calleeId = <<>>,
        !.sequenceNumber = <<>>,
        !.at = "loop"]

\* the stack after the innermost traverse has returned nested to the
\* analyzeCall that awaits it
Returned(nested) ==
    SubSeq([stack EXCEPT ![Len(stack) - 1] = Compose(@, nested)], 1, Len(stack) - 1)

\* TraverseBegins without the check of the depth: a fault the bound of the
\* depth must tell from TraverseBegins
TraverseBeginsAtAnyDepth ==
    /\ pc = "traversing"
    /\ Top.at = "enter"
    /\ \E flat \in {flattenCalls(Top.node)} :
          IF flat.threw
          THEN /\ pc' = "threw"
               /\ UNCHANGED stack
          ELSE /\ pc' = pc
               /\ stack' = [stack EXCEPT ![Len(stack)] =
                                [@ EXCEPT !.at = "loop", !.calls = flat.calls]]
    /\ UNCHANGED <<cancellationRequested, diagrams, input, output, body, cfg, participants, uid, messages, messageSequenceNumber>>

\* traverse up to its loop: flattenCalls gives the calls to process.  An
\* exception of getCallItemInfo is caught nowhere and ends sequenceCalls; with
\* calls to process at the depth limit, traverse returns undefined.
TraverseBegins ==
    /\ pc = "traversing"
    /\ Top.at = "enter"
    /\ \E flat \in {flattenCalls(Top.node)} :
          IF flat.threw
          THEN /\ pc' = "threw"
               /\ UNCHANGED stack
          ELSE /\ pc' = pc
               /\ stack' =
                    IF ~(Len(flat.calls) > 0 /\ Top.depth = cfg.maxCallDepth)
                    THEN [stack EXCEPT ![Len(stack)] =
                            [@ EXCEPT !.at = "loop", !.calls = flat.calls]]
                    ELSE IF Len(stack) > 1
                    THEN Returned([undefined |-> TRUE, list |-> <<>>])
                    ELSE [stack EXCEPT ![Len(stack)] = [@ EXCEPT !.at = "undefined"]]
    /\ UNCHANGED <<cancellationRequested, diagrams, input, output, body, cfg, participants, uid, messages, messageSequenceNumber>>

\* sequenceNumberOf without the number of the parent: a fault the properties
\* of the numbering must tell from sequenceNumberOf
sequenceNumberFlat(parentSequenceNumber, localSequenceNumberIx) ==
    toString(localSequenceNumberIx)

\* the sequence number of the call with the index localSequenceNumberIx
sequenceNumberOf(parentSequenceNumber, localSequenceNumberIx) ==
    IF parentSequenceNumber = <<>>
    THEN toString(localSequenceNumberIx)
    ELSE parentSequenceNumber \o <<".">> \o toString(localSequenceNumberIx)

\* Called without the count of the call: a fault the numbering of the calls
\* of a visit must tell from Called
CalledWithoutCount(frame, call, callItemInfo, caller, callee, sequenceNumber) ==
    [frame EXCEPT
        !.callIx = @ + 1,
        !.beforeNestedCalls =
            <<CallMessage(caller, callee, sequenceNumber, call, callItemInfo)>>,
        !.afterNestedCalls = <<ReturnMessage(caller, callee, sequenceNumber, call)>>,
        !.calleeId = callee.id,
        !.sequenceNumber = sequenceNumber,
        !.at = "awaiting"]

\* the activation frame after analyzeCall has composed the messages of the
\* call, before the nested traverse
Called(frame, call, callItemInfo, caller, callee, sequenceNumber) ==
    [frame EXCEPT
        !.callIx = @ + 1,
        !.localSequenceNumberIx = @ + 1,
        !.beforeNestedCalls =
            <<CallMessage(caller, callee, sequenceNumber, call, callItemInfo)>>,
        !.afterNestedCalls = <<ReturnMessage(caller, callee, sequenceNumber, call)>>,
        !.calleeId = callee.id,
        !.sequenceNumber = sequenceNumber,
        !.at = "awaiting"]

\* the participant of the caller: the node's, named myName
callerOf(frame) ==
    [identifyParticipant(ItemFile(frame.node), ItemSelectionRange(frame.node).start)
        EXCEPT !.object = frame.myName]

\* calleeOf with the object name of the call site taken as it is, "self"
\* included: a fault the participants of calls on self must tell from calleeOf
calleeOfQualifier(frame, call, callItemInfo) ==
    [identifyParticipant(ItemFile(call.to), ItemSelectionRange(call.to).start)
        EXCEPT !.object = callItemInfo.objectName]

\* the participant of the callee: the called item's, named after the object
\* it is invoked on, which is the caller's for "self"
calleeOf(frame, call, callItemInfo) ==
    [identifyParticipant(ItemFile(call.to), ItemSelectionRange(call.to).start)
        EXCEPT !.object =
            IF callItemInfo.objectName = <<"s", "e", "l", "f">>
            THEN frame.myName ELSE callItemInfo.objectName]

\* analyzeCall(call, myMessages, ++callIx), up to the nested traverse
AnalyzeCall ==
    /\ pc = "traversing"
    /\ Top.at = "loop"
    /\ Top.callIx < Len(Top.calls)
    /\ \E call \in {Top.calls[Top.callIx + 1]} :
          IF shallCallBeSkipped(call.to).skip
          THEN /\ stack' = [stack EXCEPT ![Len(stack)] = [@ EXCEPT !.callIx = @ + 1]]
               /\ UNCHANGED <<pc, participants, uid, messageSequenceNumber>>
          ELSE
            \E callItemInfo \in {getCallItemInfo(ItemFile(Top.node), call.fromRange, call.to)} :
              IF callItemInfo.threw
              THEN /\ pc' = "threw"
                   /\ UNCHANGED <<stack, participants, uid, messageSequenceNumber>>
              ELSE
                \E callerAdded \in {add([entries |-> participants, uid |-> uid], callerOf(Top))} :
                \E calleeAdded \in {add(callerAdded.map, calleeOf(Top, call, callItemInfo))} :
                \E sequenceNumber \in {sequenceNumberOf(Top.parentSequenceNumber,
                                                        Top.localSequenceNumberIx + 1)} :
                \E called \in {Called(Top, call, callItemInfo, callerAdded.result,
                                      calleeAdded.result, sequenceNumber)} :
                    /\ participants' = calleeAdded.map.entries
                    /\ uid' = calleeAdded.map.uid
                    /\ messageSequenceNumber' = sequenceNumber
                    /\ stack' =
                         IF Top.depth < cfg.maxCallDepth
                         THEN [stack EXCEPT ![Len(stack)] = called]
                              \o <<Activation(call.to, calleeAdded.result.object,
                                              sequenceNumber, Top.depth + 1)>>
                         ELSE [stack EXCEPT ![Len(stack)] =
                                  Compose(called, [undefined |-> FALSE, list |-> <<>>])]
                    /\ pc' = pc
    /\ UNCHANGED <<cancellationRequested, diagrams, input, output, body, cfg, messages>>

\* traverse returns myMessages to the analyzeCall that awaits it
TraverseReturns ==
    /\ pc = "traversing"
    /\ Top.at = "loop"
    /\ Top.callIx = Len(Top.calls)
    /\ Len(stack) > 1
    /\ stack' = Returned([undefined |-> FALSE, list |-> Top.myMessages])
    /\ UNCHANGED <<cancellationRequested, diagrams, input, output, body, cfg, pc, participants, uid, messages, messageSequenceNumber>>

\* the traverse of the root returns: sequenceCalls pushes its messages (none
\* for undefined), optimizes the references and hands participants and
\* messages to the model
SequenceCallsFinishes ==
    /\ pc = "traversing"
    /\ Len(stack) = 1
    /\ IF Top.at = "loop" THEN Top.callIx = Len(Top.calls) ELSE Top.at = "undefined"
    /\ \E optimized \in {optimizeReferences(participants,
                            messages \o (IF Top.at = "loop" THEN Top.myMessages ELSE <<>>))} :
          /\ participants' = optimized.participants
          /\ messages' = optimized.messages
    /\ pc' = "done"
    /\ stack' = <<>>
    /\ UNCHANGED <<cancellationRequested, diagrams, input, output, body, cfg, uid, messageSequenceNumber>>

Next ==
    \/ SequenceCallsStarts
    \/ TraverseBegins
    \/ AnalyzeCall
    \/ TraverseReturns
    \/ SequenceCallsFinishes

Spec == Init /\ [][Next]_vars

\* ------------------------------------------------------------------------
\* Properties
\* ------------------------------------------------------------------------

\* the messages of the diagram, without the empty line they start with
NotEmpty(m) == m.kind # "empty"

Emitted == SelectSeq(messages, NotEmpty)

\* the number a string of decimal digits stands for
RECURSIVE parseInt(_)
parseInt(digits) ==
    IF digits = <<>> THEN 0
    ELSE 10 * parseInt(SubSeq(digits, 1, Len(digits) - 1))
         + (CHOOSE d \in 0..9 : toString(d) = <<digits[Len(digits)]>>)

\* the dot-separated integers of a sequence number
Components(seq) ==
    IF seq = <<>> THEN <<>>
    ELSE [i \in 1..Len(split(seq, {"."})) |-> parseInt(split(seq, {"."})[i])]

\* a is a strict prefix of b
StrictPrefix(a, b) == Len(a) < Len(b) /\ SubSeq(b, 1, Len(a)) = a

\* the sequence number s sorts before t, comparing the dot-separated integers
\* component by component
SortsBefore(s, t) ==
    \/ StrictPrefix(Components(s), Components(t))
    \/ \E i \in 1..Min(Len(Components(s)), Len(Components(t))) :
          /\ SubSeq(Components(s), 1, i - 1) = SubSeq(Components(t), 1, i - 1)
          /\ Components(s)[i] < Components(t)[i]

\* what a list of messages says: kind, sequence number, callee, sender, receiver
Shape(ms) ==
    [i \in 1..Len(ms) |-> <<ms[i].kind, ms[i].seq, ms[i].callee, ms[i].from, ms[i].to>>]

\* run (class A) calls fetch(1) on a B object and helper on its own object,
\* helper calls log(...) on a C object, fetch and log call nothing; nothing is
\* skipped and the depth limit is 2 or more
RunFetchHelperLog ==
    /\ body["run"] = "R1" /\ body["helper"] = "H1"
    /\ body["fetch"] = "F0" /\ body["log"] = "L0"
    /\ \A g \in {"fetch", "helper", "log"} : ~shallCallBeSkipped(g).skip
    /\ cfg.maxCallDepth >= 2

\* C1: for run calling fetch(1) on a B object and then helper on itself, with
\* helper calling log on a C object, sequenceCalls emits the six messages
\* call 1 (run to fetch), return 1, call 2 (run to helper), call 2.1 (helper
\* to log), return 2.1, return 2, in this order, and registers the three
\* participants A, B, C in this order, as p1, p2, p3.
C1_SixMessagesThreeParticipants ==
    RunFetchHelperLog =>
        /\ pc # "threw"
        /\ pc = "done" =>
            /\ Shape(Emitted) =
                << <<"call", <<"1">>, "fetch", <<"p", "1">>, <<"p", "2">> >>,
                   <<"return", <<"1">>, "fetch", <<"p", "2">>, <<"p", "1">> >>,
                   <<"call", <<"2">>, "helper", <<"p", "1">>, <<"p", "1">> >>,
                   <<"call", <<"2", ".", "1">>, "log", <<"p", "1">>, <<"p", "3">> >>,
                   <<"return", <<"2", ".", "1">>, "log", <<"p", "3">>, <<"p", "1">> >>,
                   <<"return", <<"2">>, "helper", <<"p", "1">>, <<"p", "1">> >> >>
            /\ [i \in 1..Len(participants) |->
                    <<participants[i].value.class, participants[i].value.id>>] =
                << << <<"A">>, <<"p", "1">> >>,
                   << <<"B">>, <<"p", "2">> >>,
                   << <<"C">>, <<"p", "3">> >> >>

\* the run of C1 has finished, with its six messages
C1_Witness ==
    RunFetchHelperLog /\ pc = "done" /\ Len(Emitted) = 6 /\ Len(participants) = 3

\* the message j of the list is the return of the call message i: sender and
\* receiver swapped, the same sequence number
IsReturnOf(ms, j, i) ==
    /\ ms[j].kind = "return"
    /\ ms[j].from = ms[i].to /\ ms[j].to = ms[i].from
    /\ ms[j].seq = ms[i].seq

\* the sequence number s is a strict dotted extension of t
Extends(s, t) == StrictPrefix(Components(t), Components(s))

\* in the list ms every call has one return, after the call and after all
\* the messages that extend the call's number, which come after the call
Nested(ms) ==
    \A i \in 1..Len(ms) :
        ms[i].kind = "call" =>
            /\ Cardinality({j \in 1..Len(ms) : IsReturnOf(ms, j, i)}) = 1
            /\ \A j \in 1..Len(ms) :
                  IsReturnOf(ms, j, i) =>
                      /\ j > i
                      /\ \A k \in 1..Len(ms) :
                            Extends(ms[k].seq, ms[i].seq) => i < k /\ k < j

\* C2: in the messages sequenceCalls produces, every call message has exactly
\* one return message with sender and receiver swapped and the same sequence
\* number; the return comes after the call and after every message whose
\* number is a strict dotted extension of the call's number.
C2_CallsAndReturnsNested == pc = "done" => Nested(Emitted)

\* a finished run with a call, the calls made by its callee, and its return
\* after them
C2_Witness ==
    /\ pc = "done"
    /\ \E i, k, j \in 1..Len(Emitted) :
          /\ Emitted[i].kind = "call" /\ Emitted[k].kind = "call"
          /\ Extends(Emitted[k].seq, Emitted[i].seq)
          /\ IsReturnOf(Emitted, j, i)
          /\ i < k /\ k < j

\* the order of the messages of the kinds ks in the list ms is the order of
\* their sequence numbers
InNumberOrder(ms, ks) ==
    \A i, j \in 1..Len(ms) :
        (i # j /\ ms[i].kind \in ks /\ ms[j].kind \in ks) =>
            (i < j <=> SortsBefore(ms[i].seq, ms[j].seq))

\* C3 as stated: any message, call or return, comes before another if and
\* only if its sequence number sorts before the other's.  A call and its
\* return share a number, and a return comes after the nested messages.
C3_AllMessagesInNumberOrder == pc = "done" => InNumberOrder(Emitted, {"call", "return"})

\* C3: a call message comes before another call message if and only if its
\* sequence number sorts before the other's under the component-wise
\* comparison of the dot-separated integers.
C3_CallsInNumberOrder == pc = "done" => InNumberOrder(Emitted, {"call"})

\* a finished run with two calls of the root and a call nested in the first
C3_Witness ==
    /\ pc = "done"
    /\ \E i, j, k \in 1..Len(Emitted) :
          /\ i < j /\ j < k
          /\ Emitted[i].kind = "call" /\ Emitted[i].seq = <<"1">>
          /\ Emitted[j].kind = "call" /\ Emitted[j].seq = <<"1", ".", "1">>
          /\ Emitted[k].kind = "call" /\ Emitted[k].seq = <<"2">>

\* the sequence number of the k-th call of a visit with the parent number P
NumberOf(P, k) == IF P = <<>> THEN toString(k) ELSE P \o <<".">> \o toString(k)

\* the number of call sites of a node whose callee is not skipped
SurvivingCallSites(node) ==
    LET groupedCalls == provideOutgoingCalls(node)
    IN  Cardinality(UNION {{<<i, k>> : k \in 1..Len(groupedCalls[i].fromRanges)} :
                            i \in {j \in 1..Len(groupedCalls) :
                                      ~shallCallBeSkipped(groupedCalls[j].to).skip}})

\* the number of calls, among the first n of a list, whose callee is not skipped
Surviving(calls, n) ==
    Cardinality({i \in 1..n : ~shallCallBeSkipped(calls[i].to).skip})

\* the visit of the activation frame numbers the call under way by the
\* surviving calls it has processed
NumbersItsCall(frame) ==
    /\ frame.localSequenceNumberIx = Surviving(frame.calls, frame.callIx)
    /\ frame.at = "awaiting" =>
          /\ frame.sequenceNumber =
                NumberOf(frame.parentSequenceNumber, Surviving(frame.calls, frame.callIx))
          /\ frame.beforeNestedCalls[1].seq = frame.sequenceNumber

\* the call messages of the list ms made in the visit with the number P
CallsOfVisit(ms, P) ==
    {i \in 1..Len(ms) :
        /\ ms[i].kind = "call"
        /\ \E k \in 1..Len(ms) : ms[i].seq = NumberOf(P, k)}

\* in the list ms, the n call messages of the visit of node with the number P
\* are numbered P.1 .. P.n in this order, one per surviving call site
VisitNumbered(ms, node, P) ==
    LET made == CallsOfVisit(ms, P)
    IN  /\ \A k \in 1..Cardinality(made) :
              \E i \in made :
                  /\ ms[i].seq = NumberOf(P, k)
                  /\ Cardinality({j \in made : j < i}) = k - 1
        /\ made # {} => Cardinality(made) = SurvivingCallSites(node)

\* C4: in every visit of traverse with the parent number P, the k-th call
\* site that is not skipped, in processing order, gets the number k when P is
\* empty and P.k otherwise, k growing from 1 by one per such call; a skipped
\* call emits no message and leaves no gap in the numbers of its siblings.
C4_SurvivingCallsNumbered ==
    /\ \A d \in 1..Len(stack) : NumbersItsCall(stack[d])
    /\ pc = "done" =>
          LET ms == Emitted
          IN  /\ \A i \in 1..Len(ms) : ~shallCallBeSkipped(ms[i].callee).skip
              /\ VisitNumbered(ms, Root, <<>>)
              /\ \A i \in 1..Len(ms) :
                    ms[i].kind = "call" => VisitNumbered(ms, ms[i].callee, ms[i].seq)

\* a finished run of a root that names a skipped callee before a callee that
\* is not skipped: the latter has the number 1
C4_Witness ==
    /\ pc = "done"
    /\ provideOutgoingCalls(Root)[1].to = "B"
    /\ shallCallBeSkipped("B").skip
    /\ Len(Emitted) > 0
    /\ Emitted[1].kind = "call" /\ Emitted[1].seq = <<"1">> /\ Emitted[1].callee = "helper"

\* the position of the parenthesis that closes the one before which open
\* parentheses are open, scanning the document from line l, column c;
\* <<-1, -1>> when there is none
RECURSIVE ClosingParenthesis(_, _, _, _)
ClosingParenthesis(doc, l, c, open) ==
    IF l >= Len(doc) THEN <<-1, -1>>
    ELSE IF c >= Len(doc[l + 1]) THEN ClosingParenthesis(doc, l + 1, 0, open)
    ELSE IF doc[l + 1][c + 1] = "(" THEN ClosingParenthesis(doc, l, c + 1, open + 1)
    ELSE IF doc[l + 1][c + 1] = ")"
    THEN (IF open = 1 THEN <<l, c>> ELSE ClosingParenthesis(doc, l, c + 1, open - 1))
    ELSE ClosingParenthesis(doc, l, c + 1, open)

\* the arguments of the call whose name has the range nameRange: the range
\* from the parenthesis that follows the name, after blanks if any, to the
\* parenthesis that closes it; the empty range at the name's end when the name
\* is followed by no arguments
ArgumentRange(doc, nameRange) ==
    LET line == doc[nameRange.end[1] + 1]
        open == nameRange.end[2]
                + LeadingRun(substringFrom(line, nameRange.end[2]), {" ", "\t"})
        close == ClosingParenthesis(doc, nameRange.end[1], open + 1, 1)
    IN  IF charAt(line, open) = "(" /\ close # <<-1, -1>>
        THEN [start |-> <<nameRange.end[1], open>>, end |-> <<close[1], close[2] + 1>>]
        ELSE [start |-> nameRange.end, end |-> nameRange.end]

\* in the list ms, among the call messages of the visit of node with the number
\* P, a call named inside the arguments of another comes before the other
ArgumentsFirst(ms, node, P) ==
    \A i, j \in CallsOfVisit(ms, P) :
        contains(ArgumentRange(Doc(ItemFile(node)), ms[j].range), ms[i].range) => i < j

\* C5: for every pair of call sites A and B of the same caller, if A's name
\* lies inside B's arguments then A's call message is emitted before B's; for
\* outer(inner(x)) the message for inner precedes the message for outer.
C5_ArgumentsBeforeOuterCall ==
    pc = "done" =>
        LET ms == Emitted
        IN  /\ ArgumentsFirst(ms, Root, <<>>)
            /\ \A i \in 1..Len(ms) :
                  ms[i].kind = "call" => ArgumentsFirst(ms, ms[i].callee, ms[i].seq)

\* the call sites the language server reports for the node whose callee is
\* not skipped: the pairs of callee and range
CallSitesOf(node) ==
    LET groupedCalls == provideOutgoingCalls(node)
    IN  UNION {{<<groupedCalls[i].to, groupedCalls[i].fromRanges[k]>> :
                    k \in 1..Len(groupedCalls[i].fromRanges)} :
                i \in {j \in 1..Len(groupedCalls) :
                          ~shallCallBeSkipped(groupedCalls[j].to).skip}}

\* no call of the list is named inside the arguments of another
NoneInsideArguments(doc, calls) ==
    \A i, j \in 1..Len(calls) :
        i # j => ~contains(ArgumentRange(doc, calls[j].fromRange), calls[i].fromRange)

\* the calls are the call sites of the node, one each, and without a call
\* inside the arguments of another they ascend by the position of the name
Flattened(node, calls) ==
    LET sites == CallSitesOf(node)
    IN  /\ {<<calls[i].to, calls[i].fromRange>> : i \in 1..Len(calls)} = sites
        /\ Len(calls) = Cardinality(sites)
        /\ NoneInsideArguments(Doc(ItemFile(node)), calls) =>
              \A i, j \in 1..Len(calls) :
                  i < j => isBefore(calls[i].fromRange.start, calls[j].fromRange.start)

\* C6: flattenCalls turns the grouped outgoing calls of a node into one call
\* site per pair of callee and source range of every callee that is not
\* skipped, none lost and none twice; when no call site lies inside the
\* arguments of another, they ascend by the source position of the call name.
C6_FlattenedAndOrdered ==
    \A d \in 1..Len(stack) :
        (stack[d].at = "loop" /\ stack[d].callIx = 0) =>
            Flattened(stack[d].node, stack[d].calls)

\* traverse has got, for a body that names fetch, helper and fetch again on
\* three lines, the three calls in this order
C6_Witness ==
    /\ stack # <<>>
    /\ Top.at = "loop" /\ Top.callIx = 0
    /\ Len(Top.calls) = 3
    /\ Top.calls[1].to = "fetch" /\ Top.calls[2].to = "helper" /\ Top.calls[3].to = "fetch"
    /\ Top.calls[1].fromRange.start[1] < Top.calls[2].fromRange.start[1]
    /\ Top.calls[2].fromRange.start[1] < Top.calls[3].fromRange.start[1]

\* the namespace, class and object of a participant
Triple(p) == <<p.namespace, p.class, p.object>>

\* the registered participant with the id
WithId(id) == participants[CHOOSE i \in 1..Len(participants) : participants[i].value.id = id].value

\* the registry holds one participant and one id per triple, under the
\* triple's unique name
OnePerTriple ==
    /\ \A i, j \in 1..Len(participants) :
          i # j => /\ Triple(participants[i].value) # Triple(participants[j].value)
                   /\ participants[i].value.id # participants[j].value.id
    /\ pc # "done" =>
          \A i \in 1..Len(participants) :
              participants[i].key = uniqueName(participants[i].value)

\* the call message of the analyzeCall under way in the activation frame
\* names, as sender and receiver, the ids of the participants registered for
\* the triples of the caller and of the callee
NamesTheRegistered(frame) ==
    frame.at = "awaiting" =>
        LET call == frame.calls[frame.callIx]
            message == frame.beforeNestedCalls[1]
            info == getCallItemInfo(ItemFile(frame.node), call.fromRange, call.to)
        IN  /\ \E i \in 1..Len(participants) : participants[i].value.id = message.from
            /\ \E i \in 1..Len(participants) : participants[i].value.id = message.to
            /\ Triple(WithId(message.from)) = Triple(callerOf(frame))
            /\ Triple(WithId(message.to)) = Triple(calleeOf(frame, call, info))

\* an analyzeCall, which is the step that changes messageSequenceNumber, adds
\* to the registry the triples of its caller and callee that are not
\* registered yet, and no more
AddsTheUnregistered ==
    messageSequenceNumber' # messageSequenceNumber =>
        LET call == Top.calls[Top.callIx + 1]
            info == getCallItemInfo(ItemFile(Top.node), call.fromRange, call.to)
            registered == {Triple(participants[i].value) : i \in 1..Len(participants)}
        IN  /\ SubSeq(participants', 1, Len(participants)) = participants
            /\ Len(participants') - Len(participants) =
                  Cardinality({Triple(callerOf(Top)), Triple(calleeOf(Top, call, info))}
                              \ registered)

\* C7: Participants.add gives a participant whose namespace, class and object
\* are registered already the registered record with its id, and does not
\* grow the registry; the registry holds one participant and one id per
\* triple, and the messages of call sites that resolve to the same triple
\* name the same id.
C7_OneParticipantPerTriple ==
    /\ [](OnePerTriple /\ \A d \in 1..Len(stack) : NamesTheRegistered(stack[d]))
    /\ [][AddsTheUnregistered]_vars

\* an analyzeCall is under way whose caller and callee were both registered
\* before it: the registry has not grown, and the message names their ids
C7_Witness ==
    /\ pc = "traversing" /\ stack # <<>>
    /\ Top.at = "enter" /\ Len(stack) > 1
    /\ stack[Len(stack) - 1].at = "awaiting"
    /\ uid = 2
    /\ Len(stack[Len(stack) - 1].myMessages) >= 2
    /\ stack[Len(stack) - 1].beforeNestedCalls[1].to = <<"p", "2">>
    /\ stack[Len(stack) - 1].myMessages[1].to = <<"p", "2">>

\* the ids of the registry are p1, p2, ... in the order of the entries, and
\* the counter of the ids stands at their number
IdsInOrder ==
    /\ \A i \in 1..Len(participants) : participants[i].value.id = <<"p">> \o toString(i)
    /\ uid = Len(participants)

\* a step leaves the registered participants their place, key, class, object
\* and id
IdsKept ==
    \A i \in 1..Len(participants) :
        /\ i <= Len(participants')
        /\ participants'[i].key = participants[i].key
        /\ participants'[i].value.id = participants[i].value.id
        /\ participants'[i].value.class = participants[i].value.class
        /\ participants'[i].value.object = participants[i].value.object

\* C8: the ids of the participants are p1, p2, ..., pn in the order of first
\* registration, without gap or repeat; an id never changes, also not when
\* optimizeReferences rewrites the namespaces; the registry yields the
\* participants in the order of registration.
C8_IdsInRegistrationOrder == []IdsInOrder /\ [][IdsKept]_vars

\* a finished run with three participants whose namespaces optimizeReferences
\* has rewritten
C8_Witness ==
    /\ pc = "done"
    /\ Len(participants) = 3
    /\ \A i \in 1..3 :
          /\ participants[i].key # uniqueName(participants[i].value)
          /\ participants[i].value.id = <<"p">> \o toString(i)

\* every call site the language server reports for the node, skipped or not
AllCallSitesOf(node) ==
    LET groupedCalls == provideOutgoingCalls(node)
    IN  UNION {{<<groupedCalls[i].to, groupedCalls[i].fromRanges[k]>> :
                    k \in 1..Len(groupedCalls[i].fromRanges)} :
                i \in 1..Len(groupedCalls)}

\* the list ms holds, for each call site of sites and for nothing else, a call
\* message followed by its return, with one note between the two exactly for
\* the callees that HasCalls holds of
CallNoteReturn(ms, sites, HasCalls(_)) ==
    /\ \A i \in 1..Len(ms) : Len(Components(ms[i].seq)) = 1
    /\ \A site \in sites :
          Cardinality({i \in 1..Len(ms) :
                          ms[i].kind = "call" /\ <<ms[i].callee, ms[i].range>> = site}) = 1
    /\ Cardinality({i \in 1..Len(ms) : ms[i].kind = "call"}) = Cardinality(sites)
    /\ \A i \in 1..Len(ms) :
          ms[i].kind = "call" =>
              /\ <<ms[i].callee, ms[i].range>> \in sites
              /\ i < Len(ms)
              /\ IF HasCalls(ms[i].callee)
                 THEN /\ ms[i + 1].kind = "note" /\ ms[i + 1].seq = ms[i].seq
                      /\ ms[i + 1].from = ms[i].to
                      /\ i + 1 < Len(ms) /\ IsReturnOf(ms, i + 2, i)
                 ELSE IsReturnOf(ms, i + 1, i)
    /\ Cardinality({i \in 1..Len(ms) : ms[i].kind = "note"}) =
          Cardinality({i \in 1..Len(ms) : ms[i].kind = "call" /\ HasCalls(ms[i].callee)})
    /\ Cardinality({i \in 1..Len(ms) : ms[i].kind = "return"}) = Cardinality(sites)

\* the language server reports outgoing calls for the node
HasOutgoingCalls(node) == provideOutgoingCalls(node) # <<>>

\* the node has a call site whose callee is not skipped
HasSurvivingCalls(node) == CallSitesOf(node) # {}

\* C9 as stated: with Max Call Depth 1 the diagram has one call and one return
\* per direct call of the root, one note right after the call for each callee
\* with further outgoing calls, and nothing of the calls the callees make.
\* It counts the calls that are skipped, which get no message and no note.
C9_NotePerCalleeWithCalls ==
    (pc = "done" /\ cfg.maxCallDepth = 1) =>
        CallNoteReturn(Emitted, AllCallSitesOf(Root), HasOutgoingCalls)

\* C9: with Max Call Depth 1 the diagram has one call and one return message
\* per direct call of the root that is not skipped, one note right after the
\* call message, before the return, for each of these calls whose callee has
\* outgoing calls that are not skipped, and no message of a call made by a
\* callee.
C9_NotePerCalleeWithSurvivingCalls ==
    (pc = "done" /\ cfg.maxCallDepth = 1) =>
        CallNoteReturn(Emitted, CallSitesOf(Root), HasSurvivingCalls)

\* a finished run with Max Call Depth 1 of a root with two calls: the callee
\* of the first calls nothing, the callee of the second does and has the note
C9_Witness ==
    /\ pc = "done" /\ cfg.maxCallDepth = 1
    /\ Len(Emitted) = 5
    /\ Emitted[1].kind = "call" /\ Emitted[2].kind = "return"
    /\ Emitted[3].kind = "call" /\ Emitted[4].kind = "note" /\ Emitted[5].kind = "return"
    /\ HasSurvivingCalls(Emitted[3].callee) /\ ~HasSurvivingCalls(Emitted[1].callee)

\* the number of dot-separated integers of the sequence numbers of a list of
\* messages is at most n
AtMostComponents(ms, n) == \A i \in 1..Len(ms) : Len(Components(ms[i].seq)) <= n

\* no activation processes calls at the depth limit or beyond, and no sequence
\* number has more components than the limit
DepthBounded ==
    /\ \A d \in 1..Len(stack) :
          /\ stack[d].depth = d - 1
          /\ stack[d].calls # <<>> => stack[d].depth < cfg.maxCallDepth
          /\ AtMostComponents(stack[d].myMessages, cfg.maxCallDepth)
          /\ AtMostComponents(stack[d].beforeNestedCalls, cfg.maxCallDepth)
    /\ AtMostComponents(messages, cfg.maxCallDepth)

\* sequenceCalls has ended, with the diagram or with an exception
Terminated == pc \in {"done", "threw"}

\* the largest number of call sites in a body of the analysed programs
MaxCallSites == 3

\* a bound of the number of steps of an activation of traverse at the depth
\* d: its begin and its return, and for each call the analyzeCall and the
\* activation for the callee
RECURSIVE StepsOfVisit(_)
StepsOfVisit(d) ==
    IF d >= cfg.maxCallDepth THEN 2
    ELSE 2 + MaxCallSites * (1 + StepsOfVisit(d + 1))

\* a bound of the number of steps the activation frame has yet to take, the
\* steps of the activations above it in the stack not counted
StepsLeft(frame) ==
    IF frame.at = "enter" THEN StepsOfVisit(frame.depth)
    ELSE IF frame.at = "undefined" THEN 1
    ELSE 1 + (Len(frame.calls) - frame.callIx) * (1 + StepsOfVisit(frame.depth + 1))

RECURSIVE StepsLeftIn(_)
StepsLeftIn(frames) ==
    IF frames = <<>> THEN 0 ELSE StepsLeft(Head(frames)) + StepsLeftIn(Tail(frames))

\* a bound of the number of steps sequenceCalls has yet to take
Rank ==
    IF Terminated THEN 0
    ELSE IF pc = "start" THEN 1 + StepsOfVisit(0)
    ELSE StepsLeftIn(stack)

\* until sequenceCalls has ended there is a step to take: it is about to
\* start, or the innermost activation of traverse is about to begin, has a
\* call to analyze, or is about to return
Progresses ==
    /\ ~Terminated =>
          \/ pc = "start"
          \/ /\ pc = "traversing" /\ stack # <<>>
             /\ \/ Top.at = "enter"
                \/ Top.at = "loop" /\ Top.callIx <= Len(Top.calls)
                \/ Top.at = "undefined" /\ Len(stack) = 1
    /\ \A d \in 1..Len(stack) : Len(stack[d].calls) <= MaxCallSites

\* C10: for every call graph, with direct or mutual recursion too, and every
\* Max Call Depth, the traversal sequenceCalls starts terminates, and it never
\* processes the calls of a node at a depth equal to or beyond Max Call Depth,
\* so that no sequence number has more components than Max Call Depth.
C10_TerminatesWithinDepth ==
    /\ [](DepthBounded /\ Progresses)
    /\ [][Rank' < Rank /\ Rank' >= 0]_vars

\* a finished run of a root that calls itself: the calls go down to the
\* depth limit, where the note stands for the rest
C10_Witness ==
    /\ pc = "done"
    /\ body["run"] = "R6"
    /\ cfg.maxCallDepth = MaxDepthBound
    /\ \E i \in 1..Len(Emitted) :
          /\ Emitted[i].kind = "note"
          /\ Emitted[i].callee = Root
          /\ Len(Components(Emitted[i].seq)) = cfg.maxCallDepth


\* ------------------------------------------------------------------------
\* Lookups that fail
\* ------------------------------------------------------------------------

\* traverse awaits the host's lookups with no try around them:
\* vscode.provideOutgoingCalls in flattenCalls, openTextDocument in sortCalls
\* (through getCallItemInfo) and in analyzeCall (getCallItemInfo, findClassName).
\* A lookup that rejects ends the traverse that awaits it, every traverse that
\* awaits that one, and sequenceCalls, in the rejection.
LookupFails ==
    /\ pc = "traversing"
    /\ \/ Top.at = "enter"
       \/ Top.at = "loop" /\ Top.callIx < Len(Top.calls)
    /\ pc' = "threw"
    /\ UNCHANGED <<cancellationRequested, diagrams, input, output, body, cfg, stack,
                   participants, uid, messages, messageSequenceNumber>>

\* the runs of sequenceCalls in which a lookup may fail
FailingSpec == Init /\ [][Next \/ LookupFails]_vars

\* C11: a lookup (of the outgoing calls or of the source text) that fails for a
\* node does not make sequenceCalls raise: the node counts as one without
\* outgoing calls and sequenceCalls completes.
C11_LookupFailureDoesNotRaise == pc # "threw"


\* ------------------------------------------------------------------------
\* Cancellation
\* ------------------------------------------------------------------------

\* The command runs under vscode.window.withProgress with cancellable: true.
\* The user presses Cancel: the host sets the CancellationToken it hands to the
\* task. The task (the function Controller.generateSequenceDiagram returns) takes
\* no parameters, and nothing in the program reads the token.
CancellationRequested ==
    /\ pc \in {"start", "traversing"}
    /\ ~cancellationRequested
    /\ cancellationRequested' = TRUE
    /\ UNCHANGED <<diagrams, input, output, body, cfg, pc, stack,
                   participants, uid, messages, messageSequenceNumber>>

\* the runs of sequenceCalls the user may cancel
CancellableSpec == Init /\ [][Next \/ CancellationRequested]_vars

\* a call of traverse: a new visit of a node starts
VisitStarts == Len(stack') > Len(stack)

\* C12: once cancellation has been requested, the traversal starts no visit of
\* a node.
C12_NoVisitAfterCancellation == [][cancellationRequested => ~VisitStarts]_vars


\* ------------------------------------------------------------------------
\* shallCallBeSkipped on its own
\* ------------------------------------------------------------------------

\* sequenceCalls has not started and nothing has been composed or cancelled
Idle ==
    /\ pc = "start"
    /\ stack = <<>>
    /\ participants = <<>>
    /\ uid = 0
    /\ messages = <<>>
    /\ messageSequenceNumber = <<>>
    /\ cancellationRequested = FALSE
    /\ diagrams = <<>>

\* the values of "Ignore: Ignore on Generate" shallCallBeSkipped is applied with
SkipGlobs ==
    {<<>>,
     << <<"*", "*", "/", "c", ".", "p", "y">> >>,
     << <<"/", "p", "r", "o", "j", "/", "*", ".", "p", "y">> >>,
     << <<"/", "p", "r", "o", "j", "/", "l", "i", "b", "/", "*", "*">>, <<"*", "*", "/", "e", ".", "p", "y">> >>}

\* the workspace folders (vscode.workspace.workspaceFolders) it is applied with
SkipWorkspaces ==
    {<<>>,
     << <<"/", "p", "r", "o", "j">> >>,
     << <<"/", "p", "r", "o", "j", "/", "l", "i", "b">> >>,
     << <<"/", "p", "r", "o", "j", "/", "l", "i">> >>,
     << <<"/", "o", "t", "h", "e", "r">>, <<"/", "p", "r", "o", "j", "/", "l", "i", "b">> >>}

\* the python.venvFolders and python.venvPath settings it is applied with
SkipVenvFolders == {<<>>, << <<"l", "i", "b">> >>, << <<"l", "i">> >>}

SkipVenvPaths == {<<>>, <<"/", "o", "p", "t", "/", "v", "e", "n", "v", ";", "/", "p", "r", "o", "j", "/", "l", "i", "b">>, <<"/", "o", "p", "t", "/", "a", ",", "/", "p", "r", "o", "j", "/", "l", "i">>}

SkipPythonPaths == {<<>>, <<"/", "p", "r", "o", "j", "/", "b">>}

\* the settings shallCallBeSkipped is applied with
SkipConfigs ==
    {[DefaultOptions EXCEPT
        !.ignoreGlobs = g, !.workspaceFolders = w,
        !.ignoreNonWorkspaceFiles = nw, !.ignoreAnalyzingThirdPartyPackages = tp,
        !.pythonPath = pp, !.venvFolders = vf, !.venvPath = vp] :
     g \in SkipGlobs, w \in SkipWorkspaces, nw \in BOOLEAN, tp \in BOOLEAN,
     pp \in SkipPythonPaths, vf \in SkipVenvFolders, vp \in SkipVenvPaths}

\* a called item and settings, before shallCallBeSkipped is applied to them
SkipInit ==
    /\ Idle
    /\ body = [f \in Funcs |-> CHOOSE b \in BodyChoices(f) : TRUE]
    /\ cfg \in SkipConfigs
    /\ input \in {[function |-> "shallCallBeSkipped", calledItem |-> f] : f \in Funcs}
    /\ output = NoOutput

\* CallAnalyzer.shallCallBeSkipped(call, calledItem) is applied
ShallCallBeSkipped ==
    /\ input.function = "shallCallBeSkipped"
    /\ ~output.returned
    /\ output' = [returned |-> TRUE, threw |-> FALSE,
                  value |-> shallCallBeSkipped(input.calledItem)]
    /\ UNCHANGED <<cancellationRequested, diagrams, input, body, cfg, pc, stack,
                   participants, uid, messages, messageSequenceNumber>>

SkipSpec == SkipInit /\ [][ShallCallBeSkipped]_vars

\* the path of the file of the called item
TargetPath == FilePath(ItemFile(input.calledItem))

\* rule 1: the called item is no method, function or property
KindRule == ItemKind(input.calledItem) \notin {"Method", "Function", "Property"}

\* rule 2: an ignore glob matches the target's path
GlobRule == \E i \in 1..Len(cfg.ignoreGlobs) : minimatch(TargetPath, cfg.ignoreGlobs[i])

\* rule 3 as the code tests it: the restriction to the workspace is on and no
\* workspace folder's path is a prefix of the target's path
WorkspaceRule ==
    /\ cfg.ignoreNonWorkspaceFiles
    /\ \A i \in 1..Len(cfg.workspaceFolders) : ~startsWith(TargetPath, cfg.workspaceFolders[i])

\* rule 4 as the code tests it: third-party packages are ignored and the
\* target's path holds one of the package paths
ThirdPartyRule ==
    /\ cfg.ignoreAnalyzingThirdPartyPackages
    /\ \E i \in 1..Len(builtinPackagesPaths) : includes(TargetPath, builtinPackagesPaths[i])

\* the reason of the first of the four rules that matches, "" when none does
FirstMatchingRule ==
    IF KindRule THEN "is not a function call"
    ELSE IF GlobRule THEN "involves ignored globals"
    ELSE IF WorkspaceRule THEN "goes out of workspace"
    ELSE IF ThirdPartyRule THEN "goes to (v)env module"
    ELSE ""

\* C13: shallCallBeSkipped reports the reason of the first rule that matches,
\* in the order kind, ignore glob, workspace, third-party directory, and skips
\* exactly when a rule matches; a target an ignore glob matches that is also
\* out of the workspace is reported as "involves ignored globals".
C13_FirstMatchingRuleWins ==
    output.returned =>
        /\ output.value.reason = FirstMatchingRule
        /\ output.value.skip = (KindRule \/ GlobRule \/ WorkspaceRule \/ ThirdPartyRule)
        /\ (~KindRule /\ GlobRule /\ WorkspaceRule
                => output.value.reason = "involves ignored globals")

\* shallCallBeSkipped has answered for a method in a file that an ignore glob
\* matches and that is out of the workspace, with the third-party rule
\* matching as well
C13_Witness ==
    /\ output.returned
    /\ ~KindRule /\ GlobRule /\ WorkspaceRule /\ ThirdPartyRule
    /\ output.value = [skip |-> TRUE, reason |-> "involves ignored globals"]


\* the file with the path lies in the folder: the folder's path segments are
\* the first segments of the file's path
InsideFolder(path, folder) ==
    LET ps == split(path, {"/"})
        fs == split(folder, {"/"})
    IN  Len(fs) <= Len(ps) /\ SubSeq(ps, 1, Len(fs)) = fs

\* the target's file lies in none of the workspace folders
OutOfWorkspace ==
    \A i \in 1..Len(cfg.workspaceFolders) : ~InsideFolder(TargetPath, cfg.workspaceFolders[i])

\* C14: with the restriction to the workspace on, a call that passed the kind
\* and glob rules and whose target file lies in none of the workspace folders
\* is skipped with the reason "goes out of workspace".
C14_OutOfWorkspaceSkipped ==
    (output.returned /\ cfg.ignoreNonWorkspaceFiles /\ ~KindRule /\ ~GlobRule /\ OutOfWorkspace)
        => output.value = [skip |-> TRUE, reason |-> "goes out of workspace"]

\* the path falls under the directory: the directory's path segments are
\* consecutive whole segments of the path (a folder name such as .venv at any
\* depth, an absolute directory from the root)
UnderDirectory(path, dir) ==
    LET ps == split(path, {"/"})
        ds == split(dir, {"/"})
    IN  \E k \in 0..(Len(ps) - Len(ds)) : SubSeq(ps, k + 1, k + Len(ds)) = ds

\* the target falls under one of the dependency directories: .venv, .conda,
\* the Python path, the venv folders, the entries of the venv path
UnderDependencyDirectory ==
    \E i \in 1..Len(builtinPackagesPaths) : UnderDirectory(TargetPath, builtinPackagesPaths[i])

\* C15: with third-party packages ignored, a call that passed rules 1 to 3 is
\* skipped with the reason "goes to external module" exactly when its target
\* falls under one of the dependency directories, and is not skipped when it
\* falls under none.
C15_SkippedIffUnderDependencyDirectory ==
    (output.returned /\ cfg.ignoreAnalyzingThirdPartyPackages
        /\ ~KindRule /\ ~GlobRule /\ ~WorkspaceRule)
        => /\ (output.value = [skip |-> TRUE, reason |-> "goes to external module"])
                <=> UnderDependencyDirectory
           /\ ~UnderDependencyDirectory => ~output.value.skip


\* ------------------------------------------------------------------------
\* The command run again (Controller.createSequenceDiagram)
\* ------------------------------------------------------------------------

\* a CallAnalyzer whose Participants go on counting where the ones before
\* stopped, as a counter shared by all instances would: a fault the equality
\* of two runs must tell from NewCallAnalyzer
CallAnalyzerWithSharedUid ==
    [participants |-> <<>>, uid |-> uid, messages |-> <<>>, messageSequenceNumber |-> <<>>]

\* new CallAnalyzer(): participants = new Participants() with uid 0, no
\* messages, no sequence number
NewCallAnalyzer ==
    [participants |-> <<>>, uid |-> 0, messages |-> <<>>, messageSequenceNumber |-> <<>>]

\* `    participant ${p.id} as ${p.alias()}`
participantLine(p) ==
    <<" ", " ", " ", " ", "p", "a", "r", "t", "i", "c", "i", "p", "a", "n", "t", " ">> \o p.id \o <<" ", "a", "s", " ">> \o alias(p)

\* SequenceDiagramModel.composeDiagram: the title, the participants' lines and
\* the messages that go into the diagram text, in this order. findClassName
\* reads the line of the position only.
composeDiagram ==
    [title |-> <<"S", "e", "q", "u", "e", "n", "c", "e", " ", "d", "i", "a", "g", "r", "a", "m", " ", "o", "f", " ">>
               \o findClassName(ItemFile(Root), <<DefLineNo(Root), 0>>)
               \o <<".">> \o ItemName(Root) \o <<"(", ")", " ", "o", "f", " ">>
               \o replace(UriToString(FilePath(ItemFile(Root))), workspaceRoot, <<>>),
     participants |-> [i \in 1..Len(participants) |-> participantLine(participants[i].value)],
     messages |-> messages]

\* createSequenceDiagram after sequenceCalls: the diagram is composed
ComposeDiagram ==
    /\ pc = "done"
    /\ pc' = "composed"
    /\ diagrams' = Append(diagrams, composeDiagram)
    /\ UNCHANGED <<cancellationRequested, input, output, body, cfg, stack,
                   participants, uid, messages, messageSequenceNumber>>

\* the command is run a second time on the same function, source and settings:
\* createSequenceDiagram makes a new SequenceDiagramModel and a new CallAnalyzer
CreateSequenceDiagramAgain ==
    /\ pc = "composed"
    /\ Len(diagrams) < 2
    /\ pc' = "start"
    /\ stack' = <<>>
    /\ participants' = NewCallAnalyzer.participants
    /\ uid' = NewCallAnalyzer.uid
    /\ messages' = NewCallAnalyzer.messages
    /\ messageSequenceNumber' = NewCallAnalyzer.messageSequenceNumber
    /\ UNCHANGED <<cancellationRequested, diagrams, input, output, body, cfg>>

\* the command run twice
RepeatedSpec == Init /\ [][Next \/ ComposeDiagram \/ CreateSequenceDiagramAgain]_vars

ParseLines ==
    {<<" ", " ", "s", "e", "l", "f", ".", "b", ".", "f", "e", "t", "c", "h", "(", "1", ")">>,
     <<" ", " ", "s", "e", "l", "f", ".", "h", "e", "l", "p", "e", "r", "(", "s", "e", "l", "f", ".", "b", ".", "f", "e", "t", "c", "h", "(", "1", ")", ")">>,
     <<" ", " ", "s", "e", "l", "f", ".", "b", ".", "f", "e", "t", "c", "h", " ", "(", "1", ")">>,
     <<" ", " ", "s", "e", "l", "f", ".", "b", ".", "f", "e", "t", "c", "h", "(", "(", "1", ")", ",", " ", "(", "2", ")", ")">>,
     <<" ", " ", "s", "e", "l", "f", ".", "c", ".", "l", "o", "g", "(">>,
     <<" ", " ", " ", "1", ")">>,
     <<" ", " ", "x", " ", "=", " ", "f", "e", "t", "c", "h", " ", "+", " ", "l", "o", "g", "(", "1", ")">>,
     <<" ", " ", "x", " ", "=", " ", "f", "e", "t", "c", "h">>,
     <<" ", " ", "(", "2", ")">>,
     <<" ", " ", "f", "e", "t", "c", "h">>}

\* the documents: one or two of the lines
ParseDocs == {<<l>> : l \in ParseLines} \cup {<<l, m>> : l, m \in ParseLines}

\* the ranges of the names of the known functions in a document
NameRanges(doc) ==
    UNION {{[start |-> p, end |-> <<p[1], p[2] + Len(ItemName(g))>>] :
                p \in Occurrences(doc, 0, Len(doc) - 1, g)} :
           g \in {"fetch", "helper", "log"}}

\* a document and the range of a name in it, before one of the two functions
\* is applied to them
ParseInit ==
    /\ Idle
    /\ body = [f \in Funcs |-> CHOOSE b \in BodyChoices(f) : TRUE]
    /\ cfg \in {c \in Configs : c.maxCallDepth = 1 /\ c.ignoreNonWorkspaceFiles
                                /\ ~c.preferSignatureOverParams}
    /\ input \in UNION {{[function |-> f, doc |-> d, itemNameRange |-> r] :
                            f \in {"checkIfCallIsFunctionCall", "collectParameters"},
                            r \in NameRanges(d)} :
                         d \in ParseDocs}
    /\ output = NoOutput

\* CodeAnalyzer.checkIfCallIsFunctionCall is applied
CheckIfCallIsFunctionCall ==
    /\ input.function = "checkIfCallIsFunctionCall"
    /\ ~output.returned
    /\ output' = [returned |-> TRUE, threw |-> FALSE,
                  value |-> checkIfCallIsFunctionCall(input.doc, input.itemNameRange)]
    /\ UNCHANGED <<cancellationRequested, diagrams, input, body, cfg, pc, stack,
                   participants, uid, messages, messageSequenceNumber>>

\* CodeAnalyzer.collectParameters is applied: it returns the parameters and
\* their range, or ends in the exception of document.lineAt
CollectParameters ==
    /\ input.function = "collectParameters"
    /\ ~output.returned /\ ~output.threw
    /\ \E itemInfo \in {collectParameters(input.doc, input.itemNameRange)} :
          output' = IF itemInfo.threw
                    THEN [returned |-> FALSE, threw |-> TRUE]
                    ELSE [returned |-> TRUE, threw |-> FALSE,
                          value |-> [parameters |-> itemInfo.parameters,
                                     parametersRange |-> itemInfo.parametersRange]]
    /\ UNCHANGED <<cancellationRequested, diagrams, input, body, cfg, pc, stack,
                   participants, uid, messages, messageSequenceNumber>>

ParseSpec == ParseInit /\ [][CheckIfCallIsFunctionCall \/ CollectParameters]_vars

\* the position of the first character at or after line l, column c that is
\* no whitespace, line ends passed over; <<-1, -1>> when there is none
RECURSIVE FirstAfterWhitespace(_, _, _)
FirstAfterWhitespace(doc, l, c) ==
    IF l >= Len(doc) THEN <<-1, -1>>
    ELSE IF c >= Len(doc[l + 1]) THEN FirstAfterWhitespace(doc, l + 1, 0)
    ELSE IF doc[l + 1][c + 1] \in Whitespace THEN FirstAfterWhitespace(doc, l, c + 1)
    ELSE <<l, c>>

\* the position of the first "(" at or after line l, column c;
\* <<-1, -1>> when there is none
RECURSIVE FirstOpening(_, _, _)
FirstOpening(doc, l, c) ==
    IF l >= Len(doc) THEN <<-1, -1>>
    ELSE IF c >= Len(doc[l + 1]) THEN FirstOpening(doc, l + 1, 0)
    ELSE IF doc[l + 1][c + 1] = "(" THEN <<l, c>>
    ELSE FirstOpening(doc, l, c + 1)

\* the characters of the document from position from up to position to
\* (exclusive), the lines put one after the other
RECURSIVE SpanText(_, _, _)
SpanText(doc, from, to) ==
    IF from[1] >= Len(doc) \/ ~isBefore(from, to) THEN <<>>
    ELSE IF from[2] >= Len(doc[from[1] + 1]) THEN SpanText(doc, <<from[1] + 1, 0>>, to)
    ELSE <<doc[from[1] + 1][from[2] + 1]>> \o SpanText(doc, <<from[1], from[2] + 1>>, to)

\* the name is followed at once by a "(" that nothing closes before the
\* document ends
NeverClosed(doc, nameRange) ==
    /\ charAt(doc[nameRange.end[1] + 1], nameRange.end[2]) = "("
    /\ ClosingParenthesis(doc, nameRange.end[1], nameRange.end[2] + 1, 1) = <<-1, -1>>

\* C17: collectParameters on a call whose opening parenthesis is not closed
\* before the end of the document ends at the end of the document without an
\* error and returns the text it has collected, from the parenthesis on.
C17_UnclosedParenthesisReturnsCollected ==
    (input.function = "collectParameters" /\ NeverClosed(input.doc, input.itemNameRange))
        => /\ ~output.threw
           /\ output.returned =>
                output.value.parameters =
                    SpanText(input.doc, input.itemNameRange.end, <<Len(input.doc), 0>>)

\* C18: for a call site recognised as a function call (the parenthesis may
\* follow the name after whitespace or a line break) whose parenthesis is
\* closed, the range collectParameters computes starts at the first "(" after
\* the name and ends behind the ")" that closes it, nested parentheses counted,
\* and the parameters are the text of that span.
C18_ArgumentRangeIsParenthesisToMatch ==
    (/\ input.function = "collectParameters"
     /\ output.returned
     /\ checkIfCallIsFunctionCall(input.doc, input.itemNameRange))
        => LET open == FirstOpening(input.doc, input.itemNameRange.end[1],
                                    input.itemNameRange.end[2])
               close == ClosingParenthesis(input.doc, open[1], open[2] + 1, 1)
               behind == <<close[1], close[2] + 1>>
           IN  (open # <<-1, -1>> /\ close # <<-1, -1>>)
                 => /\ output.value.parametersRange = [start |-> open, end |-> behind]
                    /\ output.value.parameters = SpanText(input.doc, open, behind)

\* the first character after the name that is no whitespace, line ends passed
\* over, is a "("
FollowedByParenthesis(doc, nameRange) ==
    LET p == FirstAfterWhitespace(doc, nameRange.end[1], nameRange.end[2])
    IN  p # <<-1, -1>> /\ doc[p[1] + 1][p[2] + 1] = "("

\* C19: checkIfCallIsFunctionCall marks a reference as a function call if and
\* only if the name is followed by "(" at once or after whitespace and line
\* breaks only; fetch in `x = fetch + log(1)` is not marked.
C19_CallIffFollowedByParenthesis ==
    (input.function = "checkIfCallIsFunctionCall" /\ output.returned)
        => output.value = FollowedByParenthesis(input.doc, input.itemNameRange)


\* ------------------------------------------------------------------------
\* wrapText on its own
\* ------------------------------------------------------------------------

\* the longest of the short texts wrapText is applied to
MaxTextLen == 3

\* the characters of the short texts: a letter, a blank, a line continuation
\* marker, a comma
WrapCharacters == {"a", " ", "\\", ","}

\* the texts of the characters with at most n of them
RECURSIVE TextsUpTo(_)
TextsUpTo(n) ==
    IF n = 0 THEN {<<>>}
    ELSE TextsUpTo(n - 1) \cup {Append(t, c) : t \in TextsUpTo(n - 1), c \in WrapCharacters}

\* the texts wrapText is applied to: the short texts, alone and followed by
\* an argument list
WrapTexts == TextsUpTo(MaxTextLen) \cup {t \o <<"(", "1", ",", " ", "2", ",", " ", "3", ")">> : t \in TextsUpTo(MaxTextLen)}

\* the line lengths wrapText is applied with
WrapLengths == {1, 3}

\* a text and a line length, before wrapText is applied to them
WrapInit ==
    /\ Idle
    /\ body = [f \in Funcs |-> CHOOSE b \in BodyChoices(f) : TRUE]
    /\ cfg \in {c \in Configs : c.maxCallDepth = 1 /\ c.ignoreNonWorkspaceFiles
                                /\ ~c.preferSignatureOverParams}
    /\ input \in {[function |-> "wrapText", text |-> t, lengthAbout |-> w] :
                    t \in WrapTexts, w \in WrapLengths}
    /\ output = NoOutput

\* TextFormatter.wrapText is applied
WrapText ==
    /\ input.function = "wrapText"
    /\ ~output.returned
    /\ output' = [returned |-> TRUE, threw |-> FALSE,
                  value |-> wrapText(input.text, input.lengthAbout)]
    /\ UNCHANGED <<cancellationRequested, diagrams, input, body, cfg, pc, stack,
                   participants, uid, messages, messageSequenceNumber>>

WrapSpec == WrapInit /\ [][WrapText]_vars

\* the text is shorter than the line length plus the soft wrapping limit
ShortText == Len(input.text) < input.lengthAbout + softWrappingLimit

\* the text holds no backslash and no two whitespace characters in a row
WithoutJunk(text) ==
    /\ \A i \in 1..Len(text) : text[i] # "\\"
    /\ \A i \in 1..(Len(text) - 1) : ~(text[i] \in Whitespace /\ text[i + 1] \in Whitespace)

\* C20 as stated: wrapText returns every text shorter than the line length
\* plus the soft wrapping limit unchanged, character for character.
C20_ShortTextUnchanged ==
    (input.function = "wrapText" /\ output.returned /\ ShortText)
        => output.value = input.text

\* C20, amended: wrapText returns unchanged every text shorter than the line
\* length plus the soft wrapping limit that holds no backslash and no run of
\* two or more whitespace characters.
C20_ShortCleanTextUnchanged ==
    (input.function = "wrapText" /\ output.returned /\ ShortText /\ WithoutJunk(input.text))
        => output.value = input.text

\* wrapText has returned a text of ten characters or more, with blanks and
\* commas, as it got it, for a line length of 3
C20_Witness ==
    /\ input.function = "wrapText" /\ output.returned
    /\ ShortText /\ WithoutJunk(input.text)
    /\ input.lengthAbout = 3 /\ Len(input.text) >= 10
    /\ \E i \in 1..Len(input.text) : input.text[i] = " "
    /\ output.value = input.text


\* ------------------------------------------------------------------------
\* wrapText applied to its own result
\* ------------------------------------------------------------------------

\* TextFormatter.wrapText is applied to the text it returned, with the same
\* line length
WrapTextAgain ==
    /\ input.function = "wrapText"
    /\ output.returned
    /\ "again" \notin DOMAIN output
    /\ output' = [returned |-> TRUE, threw |-> FALSE, value |-> output.value,
                  again |-> wrapText(output.value, input.lengthAbout)]
    /\ UNCHANGED <<cancellationRequested, diagrams, input, body, cfg, pc, stack,
                   participants, uid, messages, messageSequenceNumber>>

RewrapSpec == WrapInit /\ [][WrapText \/ WrapTextAgain]_vars

\* wrapText has been applied to a text and then to the text it returned
Rewrapped == input.function = "wrapText" /\ output.returned /\ "again" \in DOMAIN output

WhitespaceRuns(text) ==
    {i \in 0..(Len(text) - 2) :
        /\ charAt(text, i) \in Whitespace /\ charAt(text, i + 1) \in Whitespace
        /\ (i = 0 \/ charAt(text, i - 1) \notin Whitespace)}

\* the text holds no backslash and at most one run of two or more whitespace
\* characters: the junk one application of wrapText removes
OneRunOfJunk(text) ==
    /\ \A i \in 1..Len(text) : text[i] # "\\"
    /\ Cardinality(WhitespaceRuns(text)) <= 1

RECURSIVE WithoutBreaks(_)
WithoutBreaks(text) ==
    LET i == indexOf(text, <<"<", "b", "r", ">">>)
    IN  IF i < 0 THEN text
        ELSE SubSeq(text, 1, i) \o WithoutBreaks(SubSeq(text, i + 5, Len(text)))

\* the characters of the text that are no whitespace, in their order
NonWhitespace(text) == SelectSeq(text, LAMBDA c : c \notin Whitespace)

\* the text holds no backslash
WithoutBackslash(text) == \A i \in 1..Len(text) : text[i] # "\\"

\* C28: for every text without backslashes and every line length, the text
\* wrapText returns, with its <br> markers deleted, holds the non-whitespace
\* characters of the text it got, in the same order, none lost and none
\* duplicated.
C28_WrapTextKeepsCharacters ==
    (input.function = "wrapText" /\ output.returned /\ WithoutBackslash(input.text))
        => NonWhitespace(WithoutBreaks(output.value)) = NonWhitespace(input.text)


\* ------------------------------------------------------------------------
\* optimizeReferences on its own
\* ------------------------------------------------------------------------

\* identifyParticipant and analyzeCall for a function of the class className
\* in the file at path, called on object: the Participant before Participants.add
participantAt(path, className, object) ==
    [class |-> className,
     namespace |-> replace(UriToString(path), workspaceRoot, <<>>),
     object |-> object,
     id |-> <<>>]

\* the participants of a workspace with the files /proj/a.py, /proj/ab.py,
\* /proj/a/b.py and /proj/lib/c.py; ab.py and a/b.py both define a class K
OptimizeCandidates ==
    {participantAt(<<"/", "p", "r", "o", "j", "/", "a", ".", "p", "y">>, <<"a", ".", "p", "y">>, <<>>),
     participantAt(<<"/", "p", "r", "o", "j", "/", "a", "b", ".", "p", "y">>, <<"K">>, <<>>),
     participantAt(<<"/", "p", "r", "o", "j", "/", "a", "/", "b", ".", "p", "y">>, <<"K">>, <<>>),
     participantAt(<<"/", "p", "r", "o", "j", "/", "l", "i", "b", "/", "c", ".", "p", "y">>, <<"c", ".", "p", "y">>, <<"c">>)}

\* the largest number of participants optimizeReferences is applied to
MaxParticipants == 3

\* Participants.add for each participant of the sequence, in its order
RECURSIVE Register(_, _)
Register(map, ps) ==
    IF ps = <<>> THEN map ELSE Register(add(map, Head(ps)).map, Tail(ps))

\* the sequences of n different candidates
RECURSIVE Arrangements(_)
Arrangements(n) ==
    IF n = 0 THEN {<<>>}
    ELSE {Append(s, p) : s \in Arrangements(n - 1),
                         p \in OptimizeCandidates} \ {s \in [1..n -> OptimizeCandidates] :
                                                        \E i, j \in 1..n : i < j /\ s[i] = s[j]}

\* the registries optimizeReferences is applied to
Registries ==
    {Register([entries |-> <<>>, uid |-> 0], s).entries :
        s \in UNION {Arrangements(n) : n \in 1..MaxParticipants}}

\* the argument texts of the call the messages are made for
OptimizeParameters == {<<"(", "1", ")">>, <<"(", "1", "/", "2", ")">>}

\* the messages of a traverse that found one call from the first participant
\* to the last one, with the argument text parameters
MessagesOf(ps, parameters) ==
    LET caller == ps[1].value
        callee == ps[Len(ps)].value
        call == [to |-> "fetch", fromRange |-> [start |-> <<1, 2>>, end |-> <<1, 7>>]]
    IN  <<CallMessage(caller, callee, <<"1">>, call, [parameters |-> parameters]),
          ReturnMessage(caller, callee, <<"1">>, call)>>

\* participants and messages at the end of sequenceCalls, before
\* optimizeReferences is applied to them
OptimizeInit ==
    /\ Idle
    /\ body = [f \in Funcs |-> CHOOSE b \in BodyChoices(f) : TRUE]
    /\ cfg \in {c \in Configs : c.maxCallDepth = 1 /\ c.ignoreNonWorkspaceFiles
                                /\ ~c.preferSignatureOverParams}
    /\ input \in UNION {{[function |-> "optimizeReferences", participants |-> ps, messages |-> ms] :
                            ms \in {<<>>} \cup {MessagesOf(ps, a) : a \in OptimizeParameters}} :
                        ps \in Registries}
    /\ output = NoOutput

\* optimizeReferences is applied
OptimizeReferences ==
    /\ input.function = "optimizeReferences"
    /\ ~output.returned
    /\ output' = [returned |-> TRUE, threw |-> FALSE,
                  value |-> optimizeReferences(input.participants, input.messages)]
    /\ UNCHANGED <<cancellationRequested, diagrams, input, body, cfg, pc, stack,
                   participants, uid, messages, messageSequenceNumber>>

\* optimizeReferences is applied to the participants and messages it left
OptimizeReferencesAgain ==
    /\ input.function = "optimizeReferences"
    /\ output.returned
    /\ "again" \notin DOMAIN output
    /\ output' = [returned |-> TRUE, threw |-> FALSE, value |-> output.value,
                  again |-> optimizeReferences(output.value.participants, output.value.messages)]
    /\ UNCHANGED <<cancellationRequested, diagrams, input, body, cfg, pc, stack,
                   participants, uid, messages, messageSequenceNumber>>

OptimizeSpec == OptimizeInit /\ [][OptimizeReferences \/ OptimizeReferencesAgain]_vars

\* optimizeReferences has been applied to registered participants and the
\* messages of a traversal
Optimized == input.function = "optimizeReferences" /\ output.returned

\* the namespaces of the participants, in the order of the registry
Namespaces(ps) == [i \in 1..Len(ps) |-> ps[i].value.namespace]

\* the string without its first Len(prefix) characters
StripPrefix(s, prefix) == SubSeq(s, Len(prefix) + 1, Len(s))

\* C22: optimizeReferences strips the longest common prefix of all registered
\* namespaces from every participant's namespace, and applied a second time to
\* its own result it changes neither any participant nor the message list.
C22_StripsCommonPrefixAndIsStable ==
    /\ (Optimized /\ input.messages # <<>>) =>
          \A i \in 1..Len(input.participants) :
              output.value.participants[i].value.namespace =
                  StripPrefix(input.participants[i].value.namespace,
                              findLongestCommonPrefix(Namespaces(input.participants)))
    /\ (Optimized /\ "again" \in DOMAIN output) => output.again = output.value


\* the (namespace, class, object) triple of a participant
Triple3(p) == <<p.namespace, p.class, p.object>>

\* C27: after optimizeReferences any two registered participants with
\* distinct (namespace, class, object) triples have distinct display names.
C27_DistinctParticipantsDistinctAliases ==
    Optimized =>
        \A i, j \in 1..Len(input.participants) :
            Triple3(input.participants[i].value) # Triple3(input.participants[j].value)
                => alias(output.value.participants[i].value) # alias(output.value.participants[j].value)

\* C30: optimizeReferences leaves the messages of the traversal untouched:
\* the final message list is one empty entry followed by the messages
\* traverse returned, in their order and with their text.
C30_MessagesUntouched ==
    (Optimized /\ input.messages # <<>>) =>
        output.value.messages = <<EmptyMessage>> \o input.messages


\* ------------------------------------------------------------------------
\* Controller.createSequenceDiagram: the diagram is saved and opened
\* ------------------------------------------------------------------------

\* what createSequenceDiagram has done on the host so far: nothing.
\* written is "no", "yes" or "failed" (fs.promises.writeFile), shown are the
\* notifications in their order, preview, image and closed tell whether
\* openDiagramWithPreview, saveDiagramAsImage and closeDiagram have run
NoHostActivity ==
    [returned |-> FALSE, threw |-> FALSE, written |-> "no", shown |-> <<>>,
     preview |-> FALSE, image |-> FALSE, closed |-> FALSE]

\* the command starts with the settings 'Save Diagram File Automatically' and
\* 'Open Diagram Automatically'
ControllerInit ==
    /\ Idle
    /\ body \in Programs
    /\ cfg \in {c \in Configs : c.maxCallDepth = 2 /\ c.ignoreNonWorkspaceFiles
                                /\ ~c.preferSignatureOverParams}
    /\ input \in {[function |-> "createSequenceDiagram",
                   saveAutomatically |-> s, openAutomatically |-> o] :
                    s \in BOOLEAN, o \in BOOLEAN}
    /\ output = NoHostActivity

\* createDefaultFilename gives a file name; askForFilename gives the one the
\* user selects in the save dialog, or none, and then nothing is saved
ChooseFilename ==
    /\ input.function = "createSequenceDiagram"
    /\ pc = "composed"
    /\ \E fileUri \in (IF input.saveAutomatically THEN {TRUE} ELSE BOOLEAN) :
          pc' = IF fileUri THEN "named" ELSE "finished"
    /\ UNCHANGED <<cancellationRequested, diagrams, input, output, body, cfg, stack,
                   participants, uid, messages, messageSequenceNumber>>

\* saveDiagram with every result of writeFile taken for a success: a fault
\* the steps after a failed write must tell from SaveDiagram
SaveDiagramAlwaysSucceeds ==
    /\ input.function = "createSequenceDiagram"
    /\ pc = "named"
    /\ \E written \in BOOLEAN :
          /\ output' = [output EXCEPT
                            !.written = IF written THEN "yes" ELSE "failed",
                            !.shown = Append(@, IF written THEN "information: saved"
                                                ELSE "error: not saved")]
          /\ pc' = IF input.openAutomatically THEN "saved" ELSE "finished"
    /\ UNCHANGED <<cancellationRequested, diagrams, input, body, cfg, stack,
                   participants, uid, messages, messageSequenceNumber>>

\* docMgr.saveDiagram(sdm.contents()): writeFile succeeds or throws, the user
\* is told which; the preview is next when it succeeded and the diagram is to
\* be opened
SaveDiagram ==
    /\ input.function = "createSequenceDiagram"
    /\ pc = "named"
    /\ \E written \in BOOLEAN :
          /\ output' = [output EXCEPT
                            !.written = IF written THEN "yes" ELSE "failed",
                            !.shown = Append(@, IF written THEN "information: saved"
                                                ELSE "error: not saved")]
          /\ pc' = IF written /\ input.openAutomatically THEN "saved" ELSE "finished"
    /\ UNCHANGED <<cancellationRequested, diagrams, input, body, cfg, stack,
                   participants, uid, messages, messageSequenceNumber>>

\* docMgr.openDiagramWithPreview()
OpenDiagramWithPreview ==
    /\ input.function = "createSequenceDiagram"
    /\ pc = "saved"
    /\ output' = [output EXCEPT !.preview = TRUE]
    /\ pc' = IF input.saveAutomatically THEN "previewed" ELSE "finished"
    /\ UNCHANGED <<cancellationRequested, diagrams, input, body, cfg, stack,
                   participants, uid, messages, messageSequenceNumber>>

\* docMgr.saveDiagramAsImage()
SaveDiagramAsImage ==
    /\ input.function = "createSequenceDiagram"
    /\ pc = "previewed"
    /\ output' = [output EXCEPT !.image = TRUE,
                                !.shown = Append(@, "information: image saved")]
    /\ pc' = "exported"
    /\ UNCHANGED <<cancellationRequested, diagrams, input, body, cfg, stack,
                   participants, uid, messages, messageSequenceNumber>>

\* docMgr.closeDiagram()
CloseDiagram ==
    /\ input.function = "createSequenceDiagram"
    /\ pc = "exported"
    /\ output' = [output EXCEPT !.closed = TRUE]
    /\ pc' = "finished"
    /\ UNCHANGED <<cancellationRequested, diagrams, input, body, cfg, stack,
                   participants, uid, messages, messageSequenceNumber>>

ControllerSpec ==
    ControllerInit /\ [][Next \/ ComposeDiagram \/ ChooseFilename \/ SaveDiagram
                         \/ OpenDiagramWithPreview \/ SaveDiagramAsImage \/ CloseDiagram]_vars

\* writing the diagram file has failed
WriteFailed == input.function = "createSequenceDiagram" /\ output.written = "failed"

\* C23: the preview is opened only after saveDiagram has reported success and
\* only if the diagram is to be opened automatically; when writing the file
\* fails the error is shown to the user, neither the preview nor the image
\* export nor the close step runs, and the participants, the messages and the
\* contents of the model stay as they were.
C23_PreviewOnlyAfterSuccessfulSave ==
    /\ [](input.function = "createSequenceDiagram" /\ output.preview
            => output.written = "yes" /\ input.openAutomatically)
    /\ [](WriteFailed
            => /\ \E i \in 1..Len(output.shown) : output.shown[i] = "error: not saved"
               /\ ~output.preview /\ ~output.image /\ ~output.closed)
    /\ [][WriteFailed' => UNCHANGED <<participants, messages, diagrams>>]_vars

\* the write has failed for a diagram with messages that was to be saved and
\* opened automatically, and createSequenceDiagram has ended
C23_Witness ==
    /\ WriteFailed
    /\ pc = "finished"
    /\ input.saveAutomatically /\ input.openAutomatically
    /\ Len(diagrams) = 1 /\ Len(diagrams[1].messages) > 1


\* ------------------------------------------------------------------------
\* identifyInvokedObject on its own
\* ------------------------------------------------------------------------

\* the lines of the documents identifyInvokedObject is applied to
InvokedLines ==
    {<<" ", " ", "s", "e", "l", "f", ".", "b", ".", "f", "e", "t", "c", "h", "(", "1", ")">>,
     <<" ", " ", "s", "e", "l", "f", ".", "f", "e", "t", "c", "h", "(", "0", ")">>,
     <<" ", " ", "f", "o", "o", "(", ")", ".", "f", "e", "t", "c", "h", "(", "1", ")">>,
     <<" ", " ", "x", "[", "0", "]", ".", "f", "e", "t", "c", "h", "(", "1", ")">>,
     <<" ", " ", "m", "y", "s", "e", "l", "f", ".", "x", ".", "l", "o", "g", "(", ")">>,
     <<" ", " ", "a", ".", "b", ".", "l", "o", "g", "(", "1", ")">>,
     <<" ", " ", "f", "e", "t", "c", "h", "(", "1", ")">>,
     <<" ", " ", "x", " ", "=", " ", "a", ".", "h", "e", "l", "p", "e", "r", "(", "b", ".", "f", "e", "t", "c", "h", "(", "1", ")", ")">>,
     <<" ", " ", "x", " ", "=", " ", "s", "e", "l", "f", ".", "b", ".", "f", "e", "t", "c", "h", "(", "1", ")", " ", "+", " ", "s", "e", "l", "f", ".", "c", ".", "l", "o", "g", "(", "2", ")">>,
     <<" ", " ", "s", "e", "l", "f", ".", "s", "e", "l", "f", ".", "b", ".", "l", "o", "g", "(", ")">>}

\* the documents: one or two of the lines
InvokedDocs == {<<l>> : l \in InvokedLines} \cup {<<l, m>> : l, m \in InvokedLines}

\* a document and the range of the name of a function call in it, before
\* identifyInvokedObject is applied to the line of the name
InvokedInit ==
    /\ Idle
    /\ body = [f \in Funcs |-> CHOOSE b \in BodyChoices(f) : TRUE]
    /\ cfg \in {c \in Configs : c.maxCallDepth = 1 /\ c.ignoreNonWorkspaceFiles
                                /\ ~c.preferSignatureOverParams}
    /\ input \in UNION {{[function |-> "identifyInvokedObject", doc |-> d, itemNameRange |-> r] :
                            r \in NameRanges(d)} :
                         d \in InvokedDocs}
    /\ output = NoOutput

\* CodeAnalyzer.identifyInvokedObject is applied to document.lineAt(itemNameRange.start.line)
IdentifyInvokedObject ==
    /\ input.function = "identifyInvokedObject"
    /\ ~output.returned
    /\ output' = [returned |-> TRUE, threw |-> FALSE,
                  value |-> identifyInvokedObject(input.doc[input.itemNameRange.start[1] + 1],
                                                  input.itemNameRange)]
    /\ UNCHANGED <<cancellationRequested, diagrams, input, body, cfg, pc, stack,
                   participants, uid, messages, messageSequenceNumber>>

InvokedSpec == InvokedInit /\ [][IdentifyInvokedObject]_vars

\* identifyInvokedObject has returned
Identified == input.function = "identifyInvokedObject" /\ output.returned

\* the line of the call name
CallLine == input.doc[input.itemNameRange.start[1] + 1]

\* the call name is preceded by a dot
PrecededByDot == charAt(CallLine, input.itemNameRange.start[2] - 1) = "."

\* the maximal run of characters of [A-Za-z0-9_.] that ends right before the
\* dot preceding the call name; empty when the character before the dot is
\* none of them
RunBeforeDot ==
    LET before == reverse(substring(CallLine, 0, input.itemNameRange.start[2] - 1))
    IN  reverse(SubSeq(before, 1, LeadingRun(before, QualifierChars)))

\* C24: identifyInvokedObject returns as qualifier the maximal run of
\* characters of [A-Za-z0-9_.] that ends right before the dot preceding the
\* call name (stated for the runs without "self", which C25 is about); the
\* qualifier is empty when the character before the dot is not of this class
\* or when the name is not preceded by a dot.
C24_QualifierIsRunBeforeDot ==
    Identified =>
        /\ ~PrecededByDot => output.value = <<>>
        /\ (PrecededByDot /\ ~includes(RunBeforeDot, <<"s", "e", "l", "f">>)) => output.value = RunBeforeDot

\* the qualifier with a leading "self." removed, "self" kept
WithoutLeadingSelf(qualifier) ==
    IF qualifier # <<"s", "e", "l", "f">> /\ startsWith(qualifier, <<"s", "e", "l", "f", ".">>)
    THEN SubSeq(qualifier, 6, Len(qualifier))
    ELSE qualifier

\* C25: identifyInvokedObject normalises only a leading self qualifier: a
\* qualifier that starts with "self." loses exactly that prefix, the qualifier
\* "self" is kept, every other qualifier is returned unchanged, one that holds
\* "self." elsewhere than at its start included.
C25_OnlyLeadingSelfRemoved ==
    (Identified /\ PrecededByDot /\ RunBeforeDot # <<>>)
        => output.value = WithoutLeadingSelf(RunBeforeDot)


\* ------------------------------------------------------------------------
\* the participants of calls on self
\* ------------------------------------------------------------------------

\* the call messages of the diagram
CallMessages == {messages[i] : i \in {j \in 1..Len(messages) : messages[j].kind = "call"}}

\* the call message of the call inside whose callee the call of m was found
EnclosingCall(m) ==
    CHOOSE p \in CallMessages :
        Components(p.seq) = SubSeq(Components(m.seq), 1, Len(Components(m.seq)) - 1)

\* the function whose body holds the call site of m
CallingNode(m) == IF Len(Components(m.seq)) = 1 THEN Root ELSE EnclosingCall(m).callee

\* the qualifier of the call site of m
QualifierOf(m) ==
    identifyInvokedObject(Doc(ItemFile(CallingNode(m)))[m.range.start[1] + 1], m.range)

\* the registered participant with the id
ParticipantWithId(id) ==
    participants[CHOOSE i \in 1..Len(participants) : participants[i].value.id = id].value

\* the function f calls g inside one class: both are defined in the same
\* class of the same file
InsideOneClass(f, g) ==
    /\ ItemFile(f) = ItemFile(g)
    /\ findClassName(ItemFile(f), ItemSelectionRange(f).start)
         = findClassName(ItemFile(g), ItemSelectionRange(g).start)

\* C26: the callee participant's object name is the call site's qualifier,
\* and the caller's object name for the qualifier self; the callee's object
\* name is passed down, so the sender of a call found inside a callee is the
\* receiver of the call to that callee; hence every call on self inside one
\* class, at any depth, has one and the same participant as sender and
\* receiver.
C26_SelfCallsStayOnOneParticipant ==
    pc = "done" =>
        \A m \in CallMessages :
            /\ ParticipantWithId(m.to).object =
                  IF QualifierOf(m) = <<"s", "e", "l", "f">>
                  THEN ParticipantWithId(m.from).object
                  ELSE QualifierOf(m)
            /\ Len(Components(m.seq)) > 1 => m.from = EnclosingCall(m).to
            /\ (QualifierOf(m) = <<"s", "e", "l", "f">> /\ InsideOneClass(CallingNode(m), m.callee))
                  => m.to = m.from

\* the diagram holds a call on self found inside the callee of a call on
\* self, both inside one class, and a call on another object
C26_Witness ==
    /\ pc = "done"
    /\ \E m \in CallMessages :
          /\ Len(Components(m.seq)) > 1
          /\ QualifierOf(m) = <<"s", "e", "l", "f">>
          /\ InsideOneClass(CallingNode(m), m.callee)
          /\ QualifierOf(EnclosingCall(m)) = <<"s", "e", "l", "f">>
          /\ InsideOneClass(CallingNode(EnclosingCall(m)), EnclosingCall(m).callee)
          /\ m.to = EnclosingCall(m).from
    /\ \E m \in CallMessages : QualifierOf(m) \notin {<<>>, <<"s", "e", "l", "f">>}


\* ------------------------------------------------------------------------
\* the participants and the messages of any call graph
\* ------------------------------------------------------------------------

\* the programs of Programs, and those whose root calls nothing (R0) or calls
\* only a function of a third-party package (R9)
AnyGraphPrograms ==
    Programs \cup {[p EXCEPT !["run"] = r] : p \in Programs, r \in {"R0", "R9"}}

AnyGraphInit ==
    /\ Idle
    /\ body \in AnyGraphPrograms
    /\ cfg \in Configs
    /\ input = NoInput
    /\ output = NoOutput

AnyGraphSpec == AnyGraphInit /\ [][Next]_vars

\* the ids of the registered participants
RegisteredIds == {participants[i].value.id : i \in 1..Len(participants)}

\* the text of the message starts with the ids of its sender and receiver, or
\* of the participant its note is anchored to
NamesItsParticipants(m) ==
    CASE m.kind = "call" ->
            startsWith(m.text, <<"\t">> \o m.from \o <<" ", "-", ">", ">", "+", " ">> \o m.to \o <<":">>)
      [] m.kind = "return" ->
            startsWith(m.text, <<"\t">> \o m.from \o <<" ", "-", "-", ">", ">", "-", " ">> \o m.to \o <<":">>)
      [] m.kind = "note" ->
            startsWith(m.text, <<"\t", "N", "o", "t", "e", " ", "r", "i", "g", "h", "t", " ", "o", "f", " ">>
                               \o m.from \o <<":">>)

\* C29: after sequenceCalls every id used as sender, receiver or note anchor
\* of a message is the id of a registered participant, every registered
\* participant is the sender or the receiver of a message, and a traversal
\* that emits no message registers no participant.
C29_MessagesAndParticipantsAgree ==
    pc = "done" =>
        /\ \A i \in 1..Len(Emitted) :
              /\ Emitted[i].from \in RegisteredIds
              /\ Emitted[i].to \in RegisteredIds
              /\ NamesItsParticipants(Emitted[i])
        /\ \A id \in RegisteredIds :
              \E i \in 1..Len(Emitted) :
                  /\ Emitted[i].kind \in {"call", "return"}
                  /\ id \in {Emitted[i].from, Emitted[i].to}
        /\ Emitted = <<>> => participants = <<>>

\* a diagram with three participants and a note has been made
C29_Witness ==
    /\ pc = "done"
    /\ Len(participants) = 3
    /\ \E i \in 1..Len(Emitted) : Emitted[i].kind = "note"
    /\ \E i \in 1..Len(Emitted) : Emitted[i].kind = "call" /\ Emitted[i].from # Emitted[i].to

\* sequenceCalls has ended for a root whose only call was skipped, with no
\* message and no participant
EmptyTraversalReached ==
    /\ pc = "done"
    /\ body["run"] = "R9"
    /\ messages = <<>>
    /\ participants = <<>>

====
